---------------------------- MODULE Spec2Model ----------------------------
(***************************************************************************)
(* A model of github.com/weiwenchen2022/utils: the slice editing functions *)
(* (Insert, Delete, Replace, Compact, CompactFunc) over a backing array    *)
(* with length and capacity, the parallel aggregate operations (PFilter,   *)
(* PMap, PForEach) as goroutines around a buffered channel and a           *)
(* WaitGroup, and the channel helpers (Recv, FanIn, FanOut).               *)
(*                                                                         *)
(* A Go slice is modelled by its backing array (a sequence whose length is *)
(* the capacity; Go index k is position k+1) and its length.  Element      *)
(* values are small naturals; 0 is the zero value of the element type.     *)
(***************************************************************************)
EXTENDS Integers, Sequences, FiniteSets, TLC

VARIABLES
    elemType,   \* slices: the element type E the generic function is instantiated at
    arr,        \* slices: the backing array of s (Len(arr) = cap(s))
    slen,       \* slices: len(s)
    last,       \* slices: the last call: operation, arguments and what it returned
    ncpu,       \* parallel: runtime.NumCPU()
    ps,         \* parallel: the slice s passed to PFilter / PMap / PForEach
    pCall,      \* parallel: the call in progress: operation and function f
    pWorkers,   \* parallel: the worker goroutines: chunk, position, program counter
    pChan,      \* parallel: the buffered result channel c
    pChanClosed,\* parallel: whether c is closed
    pWg,        \* parallel: the WaitGroup counter
    pCloser,    \* parallel: the goroutine doing wg.Wait(); close(c)
    pMain,      \* parallel: the caller's position
    pR,         \* parallel: the result slice r
    pCalls,     \* parallel: for every index, the values f has been invoked with
    rvToSend,   \* Recv: the values the sender of c has still to send
    rvChan,     \* Recv: the values ready on c (buffered, or offered by a blocked sender)
    rvClosed,   \* Recv: whether c is closed
    rvCancelled,\* Recv: whether ctx.Done() is closed
    rvBuf,      \* Recv: the buffer s
    rvI,        \* Recv: the loop index i
    rvN,        \* Recv: the count n
    rvPc,       \* Recv: "idle", "loop" or "returned"
    rvRes,      \* Recv: the values returned (n, closed, err)
    rvHist,     \* Recv: history: the values received, what was observed, the state at the call
    foN,        \* FanOut: the number n of output channels
    foCloses,   \* FanOut: whether the sender of input closes it after its last value
    foAll,      \* FanOut: all the values the sender of input sends
    foToSend,   \* FanOut: the values the sender of input has still to send
    foIn,       \* FanOut: the values ready on input
    foInClosed, \* FanOut: whether input is closed
    foCancelled,\* FanOut: whether ctx.Done() is closed
    foPc,       \* FanOut: for every output goroutine "range", "select" or "done"
    foHeld,     \* FanOut: for every output goroutine the value v it is sending
    foOutClosed,\* FanOut: for every output channel whether it is closed
    foGot,      \* FanOut: for every output channel the values its consumer received
    foLost,     \* FanOut: the values a goroutine held when it returned on ctx.Done()
    fiCloses,   \* FanIn: for every input whether its sender closes it after its last value
    fiAll,      \* FanIn: for every input all the values its sender sends
    fiToSend,   \* FanIn: for every input the values its sender has still to send
    fiIn,       \* FanIn: for every input the values ready on it
    fiInClosed, \* FanIn: for every input whether it is closed
    fiCancelled,\* FanIn: whether ctx.Done() is closed
    fiPc,       \* FanIn: for every output goroutine "range", "select" or "done"
    fiHeld,     \* FanIn: for every output goroutine the value n it is sending
    fiWg,       \* FanIn: the WaitGroup counter
    fiCloser,   \* FanIn: the goroutine doing wg.Wait(); close(out)
    fiOutClosed,\* FanIn: whether out is closed
    fiGot,      \* FanIn: for every input its values received on out, in order
    fiLost,     \* FanIn: the values a goroutine held when it returned on ctx.Done()
    cmpS1,      \* Compare: the slice s1
    cmpS2,      \* Compare: the slice s2
    cmpNil,     \* Compare: whether s1 and s2 are nil slices
    cmpOp,      \* Compare: "none", or the function that was called
    cmpRes,     \* Compare: what the call returned
    stHeap,     \* set: the two maps in memory, each the set of its keys
    stS,        \* set: the map the receiver s refers to
    stT,        \* set: the map the argument t refers to (possibly the same map)
    stOp,       \* set: "none", or the method that was called
    stPc,       \* set: "idle", "loop1", "loop2", "loop3" or "returned"
    stSeen,     \* set: the keys the running range loop has produced
    stFlag,     \* set: the local variable shrank / grew
    stDeleted,  \* set: the local slice deleted of SymmetricDifferenceWith
    stPre,      \* set: the two maps when the method was called
    stRes       \* set: what the method returned

slVars == <<elemType, arr, slen, last>>
parVars == <<ncpu, ps, pCall, pWorkers, pChan, pChanClosed, pWg, pCloser, pMain, pR, pCalls>>
rvVars == <<rvToSend, rvChan, rvClosed, rvCancelled, rvBuf, rvI, rvN, rvPc, rvRes, rvHist>>
foVars == <<foN, foCloses, foAll, foToSend, foIn, foInClosed, foCancelled, foPc, foHeld,
            foOutClosed, foGot, foLost>>
fiVars == <<fiCloses, fiAll, fiToSend, fiIn, fiInClosed, fiCancelled, fiPc, fiHeld, fiWg,
            fiCloser, fiOutClosed, fiGot, fiLost>>
cmpVars == <<cmpS1, cmpS2, cmpNil, cmpOp, cmpRes>>
setVars == <<stHeap, stS, stT, stOp, stPc, stSeen, stFlag, stDeleted, stPre, stRes>>

vars == <<slVars, parVars, rvVars, foVars, fiVars, cmpVars, setVars>>

(***************************************************************************)
(* Bounds of the model.                                                    *)
(***************************************************************************)
MaxCap == 3     \* largest capacity of a slice
MaxV == 2       \* largest number of values passed to Insert / Replace
MaxGrow == 2    \* largest n passed to Grow
MaxSlack == 1   \* largest capacity append allocates beyond what is needed
MaxN == 3       \* largest length of the slice of a parallel operation
MaxCPU == 2     \* largest runtime.NumCPU()
MaxElems == 3   \* largest number of values sent on a channel
MaxBuf == 2     \* largest len(s) of the buffer passed to Recv
ChanCap == 1    \* largest number of values ready on a channel at a time
MaxOut == 2     \* largest number n of output channels of FanOut
MaxIn == 2      \* largest number of input channels of FanIn
MaxInElems == 2 \* largest number of values sent on an input channel of FanIn
MaxCmpLen == 2  \* largest length of a slice passed to Compare
MaxSetElem == 3 \* largest element of a set

Min(a, b) == IF a < b THEN a ELSE b

\* Element values; 0 is the zero value (nil pointer, zero struct, 0).
Elem == {0, 1, 2}

(***************************************************************************)
(* Element types, as far as containsPointer inspects them with reflect.    *)
(***************************************************************************)
TInt == [kind |-> "int", fields |-> <<>>]
TPointer == [kind |-> "pointer", fields |-> <<>>]
TInterface == [kind |-> "interface", fields |-> <<>>]
TStruct(fs) == [kind |-> "struct", fields |-> fs]

ElemTypes ==
    { TInt, TPointer, TInterface,
      TStruct(<<"int", "pointer">>),
      TStruct(<<"int", "interface">>),
      TStruct(<<"pointer", "interface">>) }

\* reflect.TypeOf of the zero value of a type of the given kind, passed as
\* `any`: the zero value of an interface type is the nil interface, whose
\* reflect.Type is nil.
TypeOfZero(kind) == IF kind = "interface" THEN "nil" ELSE kind

\* containsPointer on the zero value of a struct field: fields are of basic,
\* pointer or interface kind.  t.Kind() on the nil Type panics.
containsPointerField(kind) ==
    LET t == TypeOfZero(kind)
    IN  IF t = "nil" THEN "panic"
        ELSE IF t = "pointer" THEN "true"
        ELSE "false"

\* The loop over the fields of a struct, from field k on.
RECURSIVE containsPointerFields(_, _)
containsPointerFields(fs, k) ==
    IF k > Len(fs) THEN "false"
    ELSE LET c == containsPointerField(fs[k])
         IN  IF c = "false" THEN containsPointerFields(fs, k + 1) ELSE c

\* containsPointer(*new(E)): "true", "false", or "panic" (nil pointer
\* dereference in t.Kind() when reflect.TypeOf returns nil).
containsPointer(T) ==
    LET t == TypeOfZero(T.kind)
    IN  IF t = "nil" THEN "panic"
        ELSE IF t = "pointer" THEN "true"
        ELSE IF t = "struct" THEN containsPointerFields(T.fields, 1)
        ELSE "false"

(***************************************************************************)
(* Go's slice primitives on a backing array a.                             *)
(***************************************************************************)
\* a[lo:hi] as a sequence of values (0-based, half-open).
Sub(a, lo, hi) == SubSeq(a, lo + 1, hi)

\* (A make that rounds the size up by one element.)
ZerosRounded(n) == [k \in 1..(n + 1) |-> 0]

\* make([]E, n): n zero values.
Zeros(n) == [k \in 1..n |-> 0]

\* (A copy that stops one element early.)
CopyShort(a, off, dlen, src) ==
    LET n == Min(dlen, Len(src)) - 1
    IN  [k \in 1..Len(a) |-> IF k > off /\ k <= off + n THEN src[k - off] ELSE a[k]]

\* copy(dst, src) where dst starts at offset off of a and has length dlen:
\* min(dlen, len(src)) elements are moved (memmove: src is read first).
Copy(a, off, dlen, src) ==
    LET n == Min(dlen, Len(src))
    IN  [k \in 1..Len(a) |-> IF k > off /\ k <= off + n THEN src[k - off] ELSE a[k]]

\* append(x, ys...) where x starts at offset off of a, has length xlen and
\* runs to the end of a: in place when the capacity suffices, else a fresh
\* array is allocated and a is left alone.
AppendInPlace(a, off, xlen, ys) == off + xlen + Len(ys) <= Len(a)
GoAppend(a, off, xlen, ys) ==
    IF AppendInPlace(a, off, xlen, ys)
    THEN Copy(a, off + xlen, Len(ys), ys)
    ELSE a

(***************************************************************************)
(* What a call returns: either it panicked, or it returned a slice with    *)
(* backing array rarr and length rlen, which shares s's array or not.  mem *)
(* is s's own backing array when the call ends.                            *)
(***************************************************************************)
Panicked(mem) ==
    [panicked |-> TRUE, mem |-> mem, rarr |-> <<>>, rlen |-> 0, shared |-> FALSE]
Returned(mem, rarr, rlen, shared) ==
    [panicked |-> FALSE, mem |-> mem, rarr |-> rarr, rlen |-> rlen, shared |-> shared]

\* The visible elements of a returned slice.
Elems(r) == SubSeq(r.rarr, 1, r.rlen)

\* (A slice expression that checks only the order of its indices.)
SliceOKUnbounded(lo, hi, c) == lo <= hi

\* s[lo:hi] is a valid slice expression of a slice of capacity c.
SliceOK(lo, hi, c) == 0 <= lo /\ lo <= hi /\ hi <= c

(***************************************************************************)
(* Insert(s, i, v...)                                                      *)
(***************************************************************************)
Insert(a, n, i, v) ==
    LET tot == n + Len(v)
    IN  IF tot <= Len(a)
        THEN \* s2 := s[:tot]; copy(s2[i+len(v):], s[i:]); copy(s2[i:], v)
             IF ~SliceOK(i + Len(v), tot, Len(a)) \/ ~SliceOK(i, n, Len(a))
             THEN Panicked(a)
             ELSE LET a1 == Copy(a, i + Len(v), tot - (i + Len(v)), Sub(a, i, n))
                      a2 == Copy(a1, i, tot - i, v)
                  IN  Returned(a2, a2, tot, TRUE)
        ELSE \* s2 := make(S, tot); copy(s2, s[:i]); copy(s2[i:], v);
             \* copy(s2[i+len(v):], s[i:])
             IF ~SliceOK(0, i, Len(a))
             THEN Panicked(a)
             ELSE LET b1 == Copy(Zeros(tot), 0, tot, Sub(a, 0, i))
                      b2 == Copy(b1, i, tot - i, v)
                  IN  IF ~SliceOK(i + Len(v), tot, tot) \/ ~SliceOK(i, n, Len(a))
                      THEN Panicked(a)
                      ELSE Returned(a,
                                    Copy(b2, i + Len(v), tot - (i + Len(v)), Sub(a, i, n)),
                                    tot, FALSE)

(***************************************************************************)
(* Delete(s, i, j)                                                         *)
(***************************************************************************)
Delete(T, a, n, i, j) ==
    IF ~SliceOK(i, j, Len(a))                  \* _ = s[i:j]
    THEN Panicked(a)
    ELSE IF ~SliceOK(j, n, Len(a))             \* s[j:]
    THEN Panicked(a)
    ELSE LET a1 == GoAppend(a, 0, i, Sub(a, j, n))   \* s2 := append(s[:i], s[j:]...)
             m == j - i
             cp == containsPointer(T)
         IN  IF cp = "panic"
             THEN Panicked(a1)
             ELSE IF cp = "true"
             THEN \* _ = append([]E(s[len(s)-(j-i):]), make([]E, j-i)...)
                  LET a2 == GoAppend(a1, n - m, m, Zeros(m))
                  IN  Returned(a2, a2, n - m, TRUE)
             ELSE Returned(a1, a1, n - m, TRUE)

(***************************************************************************)
(* Replace(s, i, j, v...)                                                  *)
(***************************************************************************)
Replace(a, n, i, j, v) ==
    IF ~SliceOK(i, j, Len(a))                  \* _ = s[i:j]
    THEN Panicked(a)
    ELSE IF ~SliceOK(j, n, Len(a))             \* len(s[j:])
    THEN Panicked(a)
    ELSE LET tot == i + Len(v) + (n - j)
         IN  IF tot <= Len(a)
             THEN LET a1 == Copy(a, i + Len(v), tot - (i + Len(v)), Sub(a, j, n))
                      a2 == Copy(a1, i, tot - i, v)
                  IN  Returned(a2, a2, tot, TRUE)
             ELSE LET b1 == Copy(Zeros(tot), 0, tot, Sub(a, 0, i))
                      b2 == Copy(b1, i, tot - i, v)
                      b3 == Copy(b2, i + Len(v), tot - (i + Len(v)), Sub(a, j, n))
                  IN  Returned(a, b3, tot, FALSE)

\* naiveReplace: s = Delete(s, i, j); s = Insert(s, i, v...)
naiveReplace(T, a, n, i, j, v) ==
    LET d == Delete(T, a, n, i, j)
    IN  IF d.panicked THEN d ELSE Insert(d.rarr, d.rlen, i, v)

(***************************************************************************)
(* Compact(s) and CompactFunc(s, eq)                                       *)
(***************************************************************************)
\* The comparison functions CompactFunc is called with.
EqFuncs == {"equal", "sameParity", "never"}
ApplyEq(eq, x, y) ==
    CASE eq = "equal" -> x = y
      [] eq = "sameParity" -> x % 2 = y % 2
      [] OTHER -> FALSE

\* for j := ...; j < len(s); j++ { if !eq(s[j-1], s[j]) { if j != i { s[i] = s[j] }; i++ } }
RECURSIVE compactLoop(_, _, _, _, _)
compactLoop(a, n, i, j, eq) ==
    IF j >= n THEN [a |-> a, i |-> i]
    ELSE IF ~ApplyEq(eq, a[j], a[j + 1])
         THEN compactLoop(IF j # i THEN [a EXCEPT ![i + 1] = a[j + 1]] ELSE a,
                          n, i + 1, j + 1, eq)
         ELSE compactLoop(a, n, i, j + 1, eq)

\* The part after the loop: zero the discarded elements, return s[:i].
compactTail(T, a, n, i) ==
    LET cp == containsPointer(T)
    IN  IF cp = "panic"
        THEN Panicked(a)
        ELSE IF cp = "true"
        THEN \* _ = append(s[i:], make([]E, len(s)-i)...)
             LET a2 == GoAppend(a, i, n - i, Zeros(n - i))
             IN  Returned(a2, a2, i, TRUE)
        ELSE Returned(a, a, i, TRUE)

Compact(T, a, n) ==
    IF n < 2 THEN Returned(a, a, n, TRUE)
    ELSE LET l == compactLoop(a, n, 1, 1, "equal")
         IN  compactTail(T, l.a, n, l.i)

CompactFunc(T, a, n, eq) ==
    IF n < 2 THEN Returned(a, a, n, TRUE)
    ELSE LET l == compactLoop(a, n, 1, 1, eq)
         IN  compactTail(T, l.a, n, l.i)

\* The reference implementations compact and compactFunc: the same loop
\* through reflect, returning s.Slice(0, i) without zeroing anything.
compact(a, n) ==
    IF n < 2 THEN Returned(a, a, n, TRUE)
    ELSE LET l == compactLoop(a, n, 1, 1, "equal")
         IN  Returned(l.a, l.a, l.i, TRUE)

compactFunc(a, n, eq) ==
    IF n < 2 THEN Returned(a, a, n, TRUE)
    ELSE LET l == compactLoop(a, n, 1, 1, eq)
         IN  Returned(l.a, l.a, l.i, TRUE)

(***************************************************************************)
(* Grow(s, n) and Clip(s)                                                  *)
(***************************************************************************)
\* append(s[:cap(s)], make([]E, n)...) with n > 0 exceeds the capacity, so
\* append allocates an array of capacity cap(s)+n or more (slack is what
\* the runtime adds), copies s[:cap(s)] and the n zero values; s's own
\* array is left alone.  The result is resliced to [:len(s)].
\* (A Grow that does not count the spare capacity s already has: it
\* allocates only when n exceeds the whole capacity.)
GrowIgnoresLen(a, len, n, slack) ==
    IF n < 0
    THEN Panicked(a)
    ELSE LET need == n - Len(a)
         IN  IF need > 0
             THEN Returned(a, Sub(a, 0, Len(a)) \o Zeros(need) \o Zeros(slack), len, FALSE)
             ELSE Returned(a, a, len, TRUE)

\* (A Grow that appends to s instead of s[:cap(s)]: the new array holds the
\* zero value beyond len(s).)
GrowFromLen(a, len, n, slack) ==
    IF n < 0
    THEN Panicked(a)
    ELSE LET need == n - (Len(a) - len)
         IN  IF need > 0
             THEN Returned(a, Sub(a, 0, len) \o Zeros(Len(a) - len + need) \o Zeros(slack),
                           len, FALSE)
             ELSE Returned(a, a, len, TRUE)

Grow(a, len, n, slack) ==
    IF n < 0
    THEN Panicked(a)                           \* panic("cannot be negative")
    ELSE LET need == n - (Len(a) - len)        \* n -= cap(s) - len(s)
         IN  IF need > 0
             THEN Returned(a, Sub(a, 0, Len(a)) \o Zeros(need) \o Zeros(slack), len, FALSE)
             ELSE Returned(a, a, len, TRUE)

\* s[:len(s):len(s)]: the same array, seen up to len(s).
\* (A Clip that returns s itself.)
ClipKeepsCap(a, len) == Returned(a, a, len, TRUE)

Clip(a, len) == Returned(a, Sub(a, 0, len), len, TRUE)

(***************************************************************************)
(* The calls of the slice functions: a slice s of some element type, with  *)
(* some contents, length and spare capacity, and one call on it.           *)
(***************************************************************************)
\* The value lists passed to Insert and Replace: 1, 2, 1, ... or 2, 1, 2, ...
ValueLists == { [k \in 1..m |-> ((k + x) % 2) + 1] : m \in 0..MaxV, x \in {0, 1} }

\* Index arguments, valid and invalid.
Indices(a) == -1..(Len(a) + 1)

NoCall ==
    [op |-> "none", i |-> 0, j |-> 0, v |-> <<>>, eq |-> "equal", pre |-> <<>>,
     res |-> Returned(<<>>, <<>>, 0, FALSE)]

Call(op, i, j, v, eq, res) ==
    /\ last.op = "none"
    /\ last' = [op |-> op, i |-> i, j |-> j, v |-> v, eq |-> eq, pre |-> arr, res |-> res]
    /\ arr' = res.mem
    /\ UNCHANGED <<elemType, slen>>
    /\ UNCHANGED <<parVars, rvVars, foVars, fiVars, cmpVars, setVars>>

slInit ==
    /\ elemType \in ElemTypes
    /\ \E c \in 0..MaxCap : arr \in [1..c -> Elem]
    /\ slen \in 0..Len(arr)
    /\ last = NoCall

\* The slice functions are not in use.
slIdle ==
    /\ elemType = TInt
    /\ arr = <<>>
    /\ slen = 0
    /\ last = NoCall

CallInsert ==
    \E i \in Indices(arr), v \in ValueLists :
        Call("Insert", i, 0, v, "equal", Insert(arr, slen, i, v))

CallDelete ==
    \E i \in Indices(arr), j \in Indices(arr) :
        Call("Delete", i, j, <<>>, "equal", Delete(elemType, arr, slen, i, j))

CallReplace ==
    \E i \in Indices(arr), j \in Indices(arr), v \in ValueLists :
        Call("Replace", i, j, v, "equal", Replace(arr, slen, i, j, v))

CallCompact ==
    Call("Compact", 0, 0, <<>>, "equal", Compact(elemType, arr, slen))

CallCompactFunc ==
    \E eq \in EqFuncs :
        Call("CompactFunc", 0, 0, <<>>, eq, CompactFunc(elemType, arr, slen, eq))

CallGrow ==
    \E n \in -1..MaxGrow, slack \in 0..MaxSlack :
        Call("Grow", n, 0, <<>>, "equal", Grow(arr, slen, n, slack))

CallClip ==
    Call("Clip", 0, 0, <<>>, "equal", Clip(arr, slen))

slNext ==
    \/ CallInsert
    \/ CallDelete
    \/ CallReplace
    \/ CallCompact
    \/ CallCompactFunc
    \/ CallGrow
    \/ CallClip


(***************************************************************************)
(* Compare(s1, s2) on slices of an ordered element type that has an        *)
(* element not ordered with any other (a floating point NaN).              *)
(***************************************************************************)
Num(v) == [nan |-> FALSE, v |-> v]
NaN == [nan |-> TRUE, v |-> 0]
CmpElems == {Num(1), Num(2), NaN}

\* (An element comparison that only notices a smaller left element.)
NotEqualOneSided(x, y) == x.nan \/ y.nan \/ x.v < y.v

\* s1[i] != s2[i]: a NaN differs from everything, itself included.
NotEqual(x, y) == x.nan \/ y.nan \/ x.v # y.v

\* for i := range s1 { if s1[i] != s2[i] { return false } }; return true
RECURSIVE equalLoop(_, _, _)
equalLoop(s1, s2, i) ==
    IF i >= Len(s1) THEN TRUE
    ELSE IF NotEqual(s1[i + 1], s2[i + 1]) THEN FALSE
    ELSE equalLoop(s1, s2, i + 1)

\* len of a nil slice is 0, so a nil slice is handled as an empty one.
Equal(s1, s2) ==
    IF Len(s1) # Len(s2) THEN FALSE ELSE equalLoop(s1, s2, 0)

\* (A < that also holds between equal elements.)
LessOrEqual(x, y) == ~x.nan /\ ~y.nan /\ x.v <= y.v

\* v1 < v2 on floating point values: false whenever a NaN is involved.
Less(x, y) == ~x.nan /\ ~y.nan /\ x.v < y.v

\* (A Compare that returns 0 whenever no pair of elements differs.)
compareLengthsIgnored(l1, l2) == 0

\* After the loop: if len(s1) < l2 { return -1 }; return 0
compareLengths(l1, l2) == IF l1 < l2 THEN -1 ELSE 0

\* for i, v1 := range s1 { ... }, from index i on (position i+1).
RECURSIVE compareLoop(_, _, _)
compareLoop(s1, s2, i) ==
    IF i >= Len(s1) THEN compareLengths(Len(s1), Len(s2))
    ELSE IF i >= Len(s2) THEN 1
    ELSE IF Less(s1[i + 1], s2[i + 1]) THEN -1
    ELSE IF Less(s2[i + 1], s1[i + 1]) THEN 1
    ELSE compareLoop(s1, s2, i + 1)

Compare(s1, s2) == compareLoop(s1, s2, 0)

CmpSlices == UNION { [1..n -> CmpElems] : n \in 0..MaxCmpLen }

cmpInit ==
    /\ cmpS1 \in CmpSlices
    /\ cmpS2 \in CmpSlices
    /\ cmpNil \in { n \in BOOLEAN \X BOOLEAN :
                        /\ n[1] => cmpS1 = <<>>
                        /\ n[2] => cmpS2 = <<>> }
    /\ cmpOp = "none"
    /\ cmpRes = 0

\* The comparison functions are not in use.
cmpIdle ==
    /\ cmpS1 = <<>>
    /\ cmpS2 = <<>>
    /\ cmpNil = <<TRUE, TRUE>>
    /\ cmpOp = "none"
    /\ cmpRes = 0

CallCompare ==
    /\ cmpOp = "none"
    /\ cmpOp' = "Compare"
    /\ cmpRes' = Compare(cmpS1, cmpS2)
    /\ UNCHANGED <<cmpS1, cmpS2, cmpNil>>
    /\ UNCHANGED <<slVars, parVars, rvVars, foVars, fiVars, setVars>>

CallEqual ==
    /\ cmpOp = "none"
    /\ cmpOp' = "Equal"
    /\ cmpRes' = Equal(cmpS1, cmpS2)
    /\ UNCHANGED <<cmpS1, cmpS2, cmpNil>>
    /\ UNCHANGED <<slVars, parVars, rvVars, foVars, fiVars, setVars>>

cmpNext == CallCompare \/ CallEqual

(***************************************************************************)
(* Package set: Set[E] is a map[E]struct{}, modelled by the set of its     *)
(* keys.  A method ranges over a map one key per step, in any order; a key *)
(* deleted before it is reached is not produced.  No loop adds keys to the *)
(* map it ranges over.  The receiver and the argument may be the same map. *)
(***************************************************************************)
SetElem == 1..MaxSetElem

\* The maps were made by New; no method is running.
stInit ==
    /\ stHeap \in [1..2 -> SUBSET SetElem]
    /\ stS \in 1..2
    /\ stT \in 1..2
    /\ stOp = "none"
    /\ stPc = "idle"
    /\ stSeen = {}
    /\ stFlag = FALSE
    /\ stDeleted = <<>>
    /\ stPre = stHeap
    /\ stRes = "none"

\* The sets are not in use.
stIdle ==
    /\ stHeap = [m \in 1..2 |-> {}]
    /\ stS = 1
    /\ stT = 1
    /\ stOp = "none"
    /\ stPc = "idle"
    /\ stSeen = {}
    /\ stFlag = FALSE
    /\ stDeleted = <<>>
    /\ stPre = stHeap
    /\ stRes = "none"

\* s.SubsetOf(t) on the key sets: the length test, then the loop that
\* returns false at a key of s missing in t.
SubsetOf(s, t) ==
    IF Cardinality(s) > Cardinality(t) THEN FALSE
    ELSE \A x \in s : x \in t

\* A method is called: its locals are initialised and its first loop starts.
stCall(op) ==
    /\ stPc = "idle"
    /\ stOp' = op
    /\ stPc' = "loop1"
    /\ stSeen' = {}
    /\ stFlag' = FALSE
    /\ stDeleted' = <<>>
    /\ stPre' = stHeap
    /\ UNCHANGED <<stHeap, stS, stT, stRes>>
    /\ UNCHANGED <<slVars, parVars, rvVars, foVars, fiVars, cmpVars>>

CallIntersectWith == stCall("IntersectWith")
CallUnionWith == stCall("UnionWith")
CallDifferenceWith == stCall("DifferenceWith")
CallSymmetricDifferenceWith == stCall("SymmetricDifferenceWith")

\* (A range that produces no key.)
UnseenNone(m) == {}

\* The keys a range over map m can produce next.
Unseen(m) == stHeap[m] \ stSeen

\* (A delete that leaves the map as it is.)
MapDeleteNothing(h, m, x) == h

\* delete(m, x)
MapDelete(h, m, x) == [h EXCEPT ![m] = @ \ {x}]

\* (A store that leaves the map as it is.)
MapStoreNothing(h, m, x) == h

\* m[x] = emptyStruct
MapStore(h, m, x) == [h EXCEPT ![m] = @ \cup {x}]

\* One iteration of the loop of IntersectWith.
stIntersectStep ==
    /\ stOp = "IntersectWith" /\ stPc = "loop1"
    /\ \E x \in Unseen(stS) :
          /\ stSeen' = stSeen \cup {x}
          /\ IF x \notin stHeap[stT]
             THEN stHeap' = MapDelete(stHeap, stS, x) /\ stFlag' = TRUE
             ELSE UNCHANGED <<stHeap, stFlag>>
    /\ UNCHANGED <<stS, stT, stOp, stPc, stDeleted, stPre, stRes>>
    /\ UNCHANGED <<slVars, parVars, rvVars, foVars, fiVars, cmpVars>>

\* One iteration of the loop of UnionWith.
stUnionStep ==
    /\ stOp = "UnionWith" /\ stPc = "loop1"
    /\ \E x \in Unseen(stT) :
          /\ stSeen' = stSeen \cup {x}
          /\ IF x \notin stHeap[stS]
             THEN stHeap' = MapStore(stHeap, stS, x) /\ stFlag' = TRUE
             ELSE UNCHANGED <<stHeap, stFlag>>
    /\ UNCHANGED <<stS, stT, stOp, stPc, stDeleted, stPre, stRes>>
    /\ UNCHANGED <<slVars, parVars, rvVars, foVars, fiVars, cmpVars>>

\* One iteration of the loop of DifferenceWith.
stDifferenceStep ==
    /\ stOp = "DifferenceWith" /\ stPc = "loop1"
    /\ \E x \in Unseen(stS) :
          /\ stSeen' = stSeen \cup {x}
          /\ IF x \in stHeap[stT]
             THEN stHeap' = MapDelete(stHeap, stS, x) /\ stFlag' = TRUE
             ELSE UNCHANGED <<stHeap, stFlag>>
    /\ UNCHANGED <<stS, stT, stOp, stPc, stDeleted, stPre, stRes>>
    /\ UNCHANGED <<slVars, parVars, rvVars, foVars, fiVars, cmpVars>>

\* The loop of IntersectWith, UnionWith or DifferenceWith is over: return
\* shrank / grew.
stReturnFlag ==
    /\ stPc = "loop1"
    /\ \/ stOp \in {"IntersectWith", "DifferenceWith"} /\ Unseen(stS) = {}
       \/ stOp = "UnionWith" /\ Unseen(stT) = {}
    /\ stPc' = "returned"
    /\ stRes' = stFlag
    /\ UNCHANGED <<stHeap, stS, stT, stOp, stSeen, stFlag, stDeleted, stPre>>
    /\ UNCHANGED <<slVars, parVars, rvVars, foVars, fiVars, cmpVars>>

\* SymmetricDifferenceWith, first loop: collect the keys of s that t has.
stSymCollect ==
    /\ stOp = "SymmetricDifferenceWith" /\ stPc = "loop1"
    /\ \E x \in Unseen(stS) :
          /\ stSeen' = stSeen \cup {x}
          /\ stDeleted' = IF x \in stHeap[stT] THEN Append(stDeleted, x) ELSE stDeleted
    /\ UNCHANGED <<stHeap, stS, stT, stOp, stPc, stFlag, stPre, stRes>>
    /\ UNCHANGED <<slVars, parVars, rvVars, foVars, fiVars, cmpVars>>

\* The first loop is over; the second starts.
stSymCollected ==
    /\ stOp = "SymmetricDifferenceWith" /\ stPc = "loop1"
    /\ Unseen(stS) = {}
    /\ stPc' = "loop2"
    /\ stSeen' = {}
    /\ UNCHANGED <<stHeap, stS, stT, stOp, stFlag, stDeleted, stPre, stRes>>
    /\ UNCHANGED <<slVars, parVars, rvVars, foVars, fiVars, cmpVars>>

\* Second loop: add the keys of t that s lacks.
stSymAdd ==
    /\ stOp = "SymmetricDifferenceWith" /\ stPc = "loop2"
    /\ \E x \in Unseen(stT) :
          /\ stSeen' = stSeen \cup {x}
          /\ stHeap' = IF x \notin stHeap[stS] THEN MapStore(stHeap, stS, x) ELSE stHeap
    /\ UNCHANGED <<stS, stT, stOp, stPc, stFlag, stDeleted, stPre, stRes>>
    /\ UNCHANGED <<slVars, parVars, rvVars, foVars, fiVars, cmpVars>>

\* The second loop is over; the third starts.
stSymAdded ==
    /\ stOp = "SymmetricDifferenceWith" /\ stPc = "loop2"
    /\ Unseen(stT) = {}
    /\ stPc' = "loop3"
    /\ stSeen' = {}
    /\ UNCHANGED <<stHeap, stS, stT, stOp, stFlag, stDeleted, stPre, stRes>>
    /\ UNCHANGED <<slVars, parVars, rvVars, foVars, fiVars, cmpVars>>

\* Third loop: for _, x := range deleted { delete(s, x) }
stSymDelete ==
    /\ stOp = "SymmetricDifferenceWith" /\ stPc = "loop3"
    /\ stDeleted # <<>>
    /\ stHeap' = MapDelete(stHeap, stS, Head(stDeleted))
    /\ stDeleted' = Tail(stDeleted)
    /\ UNCHANGED <<stS, stT, stOp, stPc, stSeen, stFlag, stPre, stRes>>
    /\ UNCHANGED <<slVars, parVars, rvVars, foVars, fiVars, cmpVars>>

\* SymmetricDifferenceWith returns.
stSymReturn ==
    /\ stOp = "SymmetricDifferenceWith" /\ stPc = "loop3"
    /\ stDeleted = <<>>
    /\ stPc' = "returned"
    /\ UNCHANGED <<stHeap, stS, stT, stOp, stSeen, stFlag, stDeleted, stPre, stRes>>
    /\ UNCHANGED <<slVars, parVars, rvVars, foVars, fiVars, cmpVars>>

stNext ==
    \/ CallIntersectWith
    \/ CallUnionWith
    \/ CallDifferenceWith
    \/ CallSymmetricDifferenceWith
    \/ stIntersectStep
    \/ stUnionStep
    \/ stDifferenceStep
    \/ stReturnFlag
    \/ stSymCollect
    \/ stSymCollected
    \/ stSymAdd
    \/ stSymAdded
    \/ stSymDelete
    \/ stSymReturn

(***************************************************************************)
(* Properties of the slice functions.                                      *)
(***************************************************************************)
\* The last call had valid arguments 0 <= i <= j <= len(s).
ValidRange == 0 <= last.i /\ last.i <= last.j /\ last.j <= slen

\* The element type is a pointer, or a struct with a pointer field.
CarriesPointer(T) ==
    \/ T.kind = "pointer"
    \/ T.kind = "struct" /\ \E k \in 1..Len(T.fields) : T.fields[k] = "pointer"

\* C1: for every slice s, every 0 <= i <= j <= len(s) and every v,
\* Replace(s, i, j, v...) and Insert(Delete(s', i, j), i, v...) on a copy s'
\* of s both return, with slices of the same length and the same elements,
\* namely s[0..i) ++ v ++ s[j..len(s)).
C1_ReplaceEqualsInsertDelete ==
    (last.op = "Replace" /\ ValidRange) =>
        LET want == naiveReplace(elemType, last.pre, slen, last.i, last.j, last.v)
        IN  /\ ~last.res.panicked
            /\ ~want.panicked
            /\ last.res.rlen = want.rlen
            /\ Elems(last.res) = Elems(want)
            /\ Elems(last.res) =
                   Sub(last.pre, 0, last.i) \o last.v \o Sub(last.pre, last.j, slen)

\* Replace returned for a slice of an interface element type, for which the
\* Delete of naiveReplace panics.
C1_Witness ==
    /\ last.op = "Replace" /\ ValidRange /\ ~last.res.panicked
    /\ elemType = TInterface
    /\ last.j > last.i /\ Len(last.v) > 0 /\ slen < Len(last.pre)
    /\ naiveReplace(elemType, last.pre, slen, last.i, last.j, last.v).panicked

\* C2: after Delete(s, i, j) with 0 <= i <= j <= len(s) on a slice whose
\* element type carries pointers, every slot of the backing array at
\* [len(s)-(j-i), len(s)) holds the zero value.
C2_DeleteZeroesVacatedSlots ==
    (last.op = "Delete" /\ ValidRange /\ CarriesPointer(elemType)) =>
        /\ ~last.res.panicked
        /\ \A k \in (slen - (last.j - last.i))..(slen - 1) : arr[k + 1] = 0

\* Delete returned on a pointer slice and a vacated slot still holds a
\* non-zero element.
C2_Witness ==
    /\ last.op = "Delete" /\ ValidRange /\ elemType = TPointer
    /\ ~last.res.panicked
    /\ \E k \in (slen - (last.j - last.i))..(slen - 1) : arr[k + 1] # 0

\* C3: after Compact(s) or CompactFunc(s, eq) returns a slice of length k on
\* a slice whose element type carries pointers, every slot of the backing
\* array at [k, len(s)) holds the zero value.
C3_CompactZeroesDiscardedSlots ==
    (last.op \in {"Compact", "CompactFunc"} /\ CarriesPointer(elemType)) =>
        /\ ~last.res.panicked
        /\ \A k \in last.res.rlen..(slen - 1) : arr[k + 1] = 0

\* Compact returned a shorter slice on a pointer slice and a discarded slot
\* still holds a non-zero element.
C3_Witness ==
    /\ last.op = "Compact" /\ elemType = TPointer
    /\ ~last.res.panicked /\ last.res.rlen < slen
    /\ \E k \in last.res.rlen..(slen - 1) : arr[k + 1] # 0

\* The last call was Insert with a valid index 0 <= i <= len(s).
ValidInsert == last.op = "Insert" /\ 0 <= last.i /\ last.i <= slen

\* C11: for every s, every 0 <= i <= len(s) and every v, Insert(s, i, v...)
\* returns r of length len(s)+len(v) with r[0..i) = s[0..i),
\* r[i..i+len(v)) = v and r[i+len(v)..) = s[i..len(s)); r[i] = v[0] when v
\* is non-empty and r equals s when v is empty.
C11_InsertResult ==
    ValidInsert =>
        LET r == last.res
            i == last.i
            v == last.v
        IN  /\ ~r.panicked
            /\ r.rlen = slen + Len(v)
            /\ Sub(r.rarr, 0, i) = Sub(last.pre, 0, i)
            /\ Sub(r.rarr, i, i + Len(v)) = v
            /\ Sub(r.rarr, i + Len(v), r.rlen) = Sub(last.pre, i, slen)
            /\ (v # <<>> => r.rarr[i + 1] = v[1])
            /\ (v = <<>> => Elems(r) = Sub(last.pre, 0, slen))

\* Insert in the middle of a slice, in place, shifting a non-empty tail.
C11_Witness ==
    /\ ValidInsert /\ ~last.res.panicked /\ last.res.shared
    /\ 0 < last.i /\ last.i < slen /\ last.v # <<>>
    /\ last.res.rarr # last.pre

\* C12: Insert with valid i reuses s's backing array (result capacity =
\* cap(s)) exactly when len(s)+len(v) <= cap(s); otherwise the result is a
\* fresh array of capacity exactly len(s)+len(v) and s's own array is
\* unchanged.
C12_InsertReusesExactlyWhenFits ==
    ValidInsert =>
        LET r == last.res
            tot == slen + Len(last.v)
        IN  /\ ~r.panicked
            /\ r.shared <=> tot <= Len(last.pre)
            /\ r.shared => Len(r.rarr) = Len(last.pre) /\ r.rarr = arr
            /\ ~r.shared => Len(r.rarr) = tot /\ arr = last.pre

\* Insert allocated: the slice was non-empty with spare capacity, but not
\* enough of it.
C12_Witness ==
    /\ ValidInsert /\ ~last.res.panicked /\ ~last.res.shared
    /\ slen > 0 /\ slen < Len(last.pre) /\ Len(last.v) = 2
    /\ Len(last.res.rarr) = slen + 2 /\ arr = last.pre

\* C13: for every s and 0 <= i <= j <= len(s), Delete(s, i, j) returns a
\* slice of length len(s)-(j-i) equal to s[0..i) ++ s[j..len(s)) on s's own
\* backing array with s's capacity; Delete(s, i, i) returns s unchanged.
C13_DeleteResult ==
    (last.op = "Delete" /\ ValidRange) =>
        LET r == last.res
            i == last.i
            j == last.j
        IN  /\ ~r.panicked
            /\ r.rlen = slen - (j - i)
            /\ Elems(r) = Sub(last.pre, 0, i) \o Sub(last.pre, j, slen)
            /\ r.shared /\ r.rarr = arr /\ Len(r.rarr) = Len(last.pre)
            /\ (i = j => arr = last.pre)

\* Delete with valid arguments on a slice of an interface element type
\* panicked, after shifting the tail.
C13_Witness ==
    /\ last.op = "Delete" /\ ValidRange /\ elemType = TInterface
    /\ last.i < last.j /\ last.j < slen
    /\ last.res.panicked /\ arr # last.pre

\* C14: invalid arguments always panic: Insert(s, i, ...) when i < 0 or
\* i > len(s); Delete(s, i, j) and Replace(s, i, j, ...) when
\* 0 <= i <= j <= len(s) does not hold, also when j is in (len(s), cap(s)];
\* Grow(s, n) when n < 0.
C14_InvalidArgumentsPanic ==
    /\ (last.op = "Insert" /\ ~ValidInsert) => last.res.panicked
    /\ (last.op \in {"Delete", "Replace"} /\ ~ValidRange) => last.res.panicked
    /\ (last.op = "Grow" /\ last.i < 0) => last.res.panicked

\* Delete panicked with j beyond the length but within the capacity.
C14_Witness ==
    /\ last.op = "Delete" /\ last.res.panicked
    /\ 0 <= last.i /\ last.i <= last.j
    /\ slen < last.j /\ last.j <= Len(last.pre)

\* C15: whenever Insert, Delete, Replace, Compact, CompactFunc or Grow
\* panics, every slot of s's backing array holds what it held before the
\* call.
C15_PanicBeforeMutation ==
    (last.op \in {"Insert", "Delete", "Replace", "Compact", "CompactFunc", "Grow"}
        /\ last.res.panicked) => arr = last.pre

\* Compact panicked on a slice of an interface element type after its loop
\* moved an element.
C15_Witness ==
    /\ last.op = "Compact" /\ last.res.panicked
    /\ elemType = TInterface
    /\ arr # last.pre

\* The last call was Grow(s, n) with n >= 0; n is recorded as last.i.
ValidGrow == last.op = "Grow" /\ last.i >= 0

\* C16: for every s and n >= 0, Grow(s, n) returns r with len(r) = len(s),
\* r[k] = s[k] for k < len(s) and cap(r) >= len(s)+n, so that n elements can
\* be appended in place; when cap(s)-len(s) >= n it returns s itself on the
\* same backing array.
C16_GrowResult ==
    ValidGrow =>
        LET r == last.res
            n == last.i
        IN  /\ ~r.panicked
            /\ r.rlen = slen
            /\ Elems(r) = Sub(last.pre, 0, slen)
            /\ Len(r.rarr) >= slen + n
            /\ AppendInPlace(r.rarr, 0, r.rlen, Zeros(n))
            /\ (Len(last.pre) - slen >= n) =>
                   r.shared /\ r.rarr = arr /\ arr = last.pre

\* Grow allocated for a non-empty slice that had some, but not enough, spare
\* capacity.
C16_Witness ==
    /\ ValidGrow /\ ~last.res.panicked /\ ~last.res.shared
    /\ slen > 0 /\ slen < Len(last.pre) /\ last.i = 2
    /\ Len(last.res.rarr) >= slen + 2

\* C17: for every s and n >= 0, with r = Grow(s, n), r resliced up to cap(s)
\* shows at every k in [len(s), cap(s)) the value s's backing array held at
\* k before the call, and s's own backing array is unchanged.
C17_GrowKeepsHiddenRegion ==
    ValidGrow =>
        LET r == last.res
        IN  /\ ~r.panicked
            /\ Len(r.rarr) >= Len(last.pre)
            /\ \A k \in slen..(Len(last.pre) - 1) : r.rarr[k + 1] = last.pre[k + 1]
            /\ arr = last.pre

\* Grow allocated and the new array carries a non-zero value of the hidden
\* region.
C17_Witness ==
    /\ ValidGrow /\ ~last.res.panicked /\ ~last.res.shared
    /\ slen < Len(last.pre)
    /\ last.pre[slen + 1] # 0
    /\ last.res.rarr[slen + 1] = last.pre[slen + 1]

\* C18: Clip(s) returns r on the same backing array with len(r) = len(s),
\* cap(r) = len(s) and r[k] = s[k] for k < len(s); nothing is modified.
C18_ClipResult ==
    last.op = "Clip" =>
        LET r == last.res
        IN  /\ ~r.panicked
            /\ r.shared
            /\ r.rlen = slen
            /\ Len(r.rarr) = slen
            /\ Elems(r) = Sub(last.pre, 0, slen)
            /\ arr = last.pre

\* Clip cut off spare capacity of a non-empty slice.
C18_Witness ==
    /\ last.op = "Clip" /\ ~last.res.panicked
    /\ slen > 0 /\ slen < Len(last.pre)
    /\ Len(last.res.rarr) = slen

\* The elements s[j], j in [k, n), with j = 0 or not eq(s[j-1], s[j]), in
\* order: the first element of every run of adjacent equal elements.
RECURSIVE FirstOfRuns(_, _, _, _)
FirstOfRuns(a, n, eq, k) ==
    IF k >= n THEN <<>>
    ELSE (IF k = 0 \/ ~ApplyEq(eq, a[k], a[k + 1]) THEN <<a[k + 1]>> ELSE <<>>)
             \o FirstOfRuns(a, n, eq, k + 1)

\* C19: Compact(s) returns, as a prefix of s's own backing array, exactly
\* the original elements s[j] with j = 0 or s[j] != s[j-1], in order;
\* CompactFunc(s, eq) does the same with eq on the original neighbours; both
\* agree with the reference implementations compact and compactFunc.
C19_CompactKeepsFirstOfRuns ==
    (last.op \in {"Compact", "CompactFunc"}) =>
        LET r == last.res
            ref == IF last.op = "Compact"
                   THEN compact(last.pre, slen)
                   ELSE compactFunc(last.pre, slen, last.eq)
        IN  /\ ~r.panicked
            /\ r.shared /\ r.rarr = arr
            /\ Elems(r) = FirstOfRuns(last.pre, slen, last.eq, 0)
            /\ Elems(r) = Elems(ref)

\* CompactFunc panicked on a slice of structs with an interface field, on
\* which the reference compactFunc returns the first element of each run.
C19_Witness ==
    /\ last.op = "CompactFunc" /\ last.eq = "sameParity"
    /\ elemType = TStruct(<<"int", "interface">>)
    /\ slen = 3 /\ last.res.panicked
    /\ Len(Elems(compactFunc(last.pre, slen, last.eq))) = 2

\* The last call was Delete with valid arguments, Compact or CompactFunc.
ShrinkingCall ==
    \/ last.op = "Delete" /\ ValidRange
    \/ last.op \in {"Compact", "CompactFunc"}

\* C27: Delete, Compact and CompactFunc never write to slots at indices
\* >= len(s): for every element type and spare capacity the slots in
\* [len(s), cap(s)) hold the same values after the call as before.
C27_ShrinkingKeepsHiddenRegion ==
    ShrinkingCall =>
        \A k \in slen..(Len(last.pre) - 1) : arr[k + 1] = last.pre[k + 1]

\* Delete on a pointer slice with spare capacity returned and a slot beyond
\* len(s) that held a non-zero value now holds the zero value.
C27_Witness ==
    /\ last.op = "Delete" /\ ValidRange /\ elemType = TPointer
    /\ ~last.res.panicked
    /\ \E k \in slen..(Len(last.pre) - 1) : last.pre[k + 1] # 0 /\ arr[k + 1] = 0

\* C28: Delete, Compact and CompactFunc called with valid arguments never
\* fail, whatever the element type: also for an interface element type and
\* for a struct type with an interface field containsPointer returns a
\* boolean and the operation returns.
C28_ShrinkingNeverPanics ==
    ShrinkingCall =>
        /\ containsPointer(elemType) \in {"true", "false"}
        /\ ~last.res.panicked

\* Delete with valid arguments panicked on a slice of structs with an
\* interface field.
C28_Witness ==
    /\ last.op = "Delete" /\ ValidRange
    /\ elemType = TStruct(<<"int", "interface">>)
    /\ containsPointer(elemType) = "panic"
    /\ last.res.panicked

(***************************************************************************)
(* Filter, Map and their parallel variants PFilter, PMap, and PForEach.    *)
(***************************************************************************)
\* A slice value of this part: nil, or its elements.
NilSlice == [isNil |-> TRUE, elems |-> <<>>]
SliceOf(es) == [isNil |-> FALSE, elems |-> es]

\* The functions f passed to Map / PMap (results are never the zero value).
MapFuncs == {"tagIndex", "plusTen"}
ApplyMap(f, i, v) == IF f = "tagIndex" THEN 10 * (i + 1) + v ELSE v + 10

\* The predicates f passed to Filter / PFilter.
FilterFuncs == {"all", "odd", "evenIndex"}
ApplyFilter(f, i, v) ==
    CASE f = "all" -> TRUE
      [] f = "odd" -> v % 2 = 1
      [] OTHER -> i % 2 = 0

\* Filter(s, f)
RECURSIVE filterLoop(_, _, _, _)
filterLoop(es, f, i, r) ==
    IF i >= Len(es) THEN r
    ELSE filterLoop(es, f, i + 1,
                    IF ApplyFilter(f, i, es[i + 1]) THEN Append(r, es[i + 1]) ELSE r)
Filter(s, f) == IF s.isNil THEN NilSlice ELSE SliceOf(filterLoop(s.elems, f, 0, <<>>))

\* Map(s, f)
Map(s, f) ==
    IF s.isNil THEN NilSlice
    ELSE SliceOf([k \in 1..Len(s.elems) |-> ApplyMap(f, k - 1, s.elems[k])])

\* step := n / ngoroutines; if step == 0 { step = 1 }
Step(n, ngoroutines) == IF n \div ngoroutines = 0 THEN 1 ELSE n \div ngoroutines

\* The goroutines the spawning loop starts: g = 0, 1, ... while g < ngoroutines
\* and start = g*step < n; goroutine g gets s[start:end], end = min(start+step, n).
NumWorkers(n, ngoroutines) ==
    Cardinality({g \in 0..(ngoroutines - 1) : g * Step(n, ngoroutines) < n})
Spawn(n, ngoroutines) ==
    [w \in 1..NumWorkers(n, ngoroutines) |->
        [start |-> (w - 1) * Step(n, ngoroutines),
         end |-> Min((w - 1) * Step(n, ngoroutines) + Step(n, ngoroutines), n),
         i |-> 0, pc |-> "loop", val |-> 0]]

parIdle ==
    /\ ncpu = 1
    /\ ps = NilSlice
    /\ pCall = [op |-> "none", f |-> "none"]
    /\ pWorkers = <<>>
    /\ pChan = <<>>
    /\ pChanClosed = FALSE
    /\ pWg = 0
    /\ pCloser = "none"
    /\ pMain = "idle"
    /\ pR = NilSlice
    /\ pCalls = <<>>

\* The slices the operations are called on: nil, and 1, 2, 1, ... or 2, 1, ...
InputSlices ==
    {NilSlice} \cup
    { SliceOf([k \in 1..m |-> ((k + x) % 2) + 1]) : m \in 0..MaxN, x \in {0, 1} }

parInit ==
    /\ ncpu \in 1..MaxCPU
    /\ ps \in InputSlices
    /\ pCall = [op |-> "none", f |-> "none"]
    /\ pWorkers = <<>>
    /\ pChan = <<>>
    /\ pChanClosed = FALSE
    /\ pWg = 0
    /\ pCloser = "none"
    /\ pMain = "idle"
    /\ pR = NilSlice
    /\ pCalls = [k \in 1..Len(ps.elems) |-> <<>>]

\* The call up to the collecting loop: the nil check, the spawning loop
\* (wg.Add(1) and go for every chunk), the closer goroutine, r := make(...).
StartParallel(op, f, r0) ==
    /\ pMain = "idle"
    /\ pCall' = [op |-> op, f |-> f]
    /\ IF ps.isNil
       THEN /\ pMain' = "returned"
            /\ pR' = NilSlice
            /\ UNCHANGED <<pWorkers, pWg, pCloser>>
       ELSE /\ pWorkers' = Spawn(Len(ps.elems), ncpu)
            /\ pWg' = NumWorkers(Len(ps.elems), ncpu)
            /\ pCloser' = "wait"
            /\ pMain' = "collect"
            /\ pR' = r0
    /\ UNCHANGED <<ncpu, ps, pChan, pChanClosed, pCalls>>
    /\ UNCHANGED <<slVars, rvVars, foVars, fiVars, cmpVars, setVars>>

CallPMap ==
    \E f \in MapFuncs : StartParallel("PMap", f, SliceOf(Zeros(Len(ps.elems))))

CallPFilter ==
    \E f \in FilterFuncs : StartParallel("PFilter", f, SliceOf(<<>>))

\* PForEach has no nil check, no channel and no closer: the caller spawns
\* and then blocks in wg.Wait().
CallPForEach ==
    /\ pMain = "idle"
    /\ pCall' = [op |-> "PForEach", f |-> "record"]
    /\ pWorkers' = Spawn(Len(ps.elems), ncpu)
    /\ pWg' = NumWorkers(Len(ps.elems), ncpu)
    /\ pMain' = "wait"
    /\ UNCHANGED <<ncpu, ps, pChan, pChanClosed, pCloser, pR, pCalls>>
    /\ UNCHANGED <<slVars, rvVars, foVars, fiVars, cmpVars, setVars>>

\* Index and element of the iteration worker w is at.
CurIndex(w) == pWorkers[w].start + pWorkers[w].i
CurElem(w) == ps.elems[CurIndex(w) + 1]

\* A worker starts the next iteration of `for i, v := range s`: it invokes
\* f(start+i, v).
WorkerCallF(w) ==
    /\ pWorkers[w].pc = "loop"
    /\ CurIndex(w) < pWorkers[w].end
    /\ pWorkers' = [pWorkers EXCEPT ![w].pc = "call"]
    /\ pCalls' = [pCalls EXCEPT ![CurIndex(w) + 1] = Append(@, CurElem(w))]
    /\ UNCHANGED <<ncpu, ps, pCall, pChan, pChanClosed, pWg, pCloser, pMain, pR>>
    /\ UNCHANGED <<slVars, rvVars, foVars, fiVars, cmpVars, setVars>>

\* What the worker does with the result of f: PMap sends result{start+i, f(...)},
\* PFilter sends v when f is true, PForEach goes on.
AfterF(op, f, idx, v) ==
    CASE op = "PMap" -> [send |-> TRUE, val |-> <<idx, ApplyMap(f, idx, v)>>]
      [] op = "PFilter" -> [send |-> ApplyFilter(f, idx, v), val |-> v]
      [] OTHER -> [send |-> FALSE, val |-> 0]

\* f returns.
WorkerFReturns(w) ==
    /\ pWorkers[w].pc = "call"
    /\ LET a == AfterF(pCall.op, pCall.f, CurIndex(w), CurElem(w))
       IN  pWorkers' =
               IF a.send
               THEN [pWorkers EXCEPT ![w].pc = "send", ![w].val = a.val]
               ELSE [pWorkers EXCEPT ![w].pc = "loop", ![w].i = @ + 1]
    /\ UNCHANGED <<ncpu, ps, pCall, pChan, pChanClosed, pWg, pCloser, pMain, pR, pCalls>>
    /\ UNCHANGED <<slVars, rvVars, foVars, fiVars, cmpVars, setVars>>

\* c <- value: blocks while the buffer (capacity ngoroutines) is full.
WorkerSend(w) ==
    /\ pWorkers[w].pc = "send"
    /\ ~pChanClosed
    /\ Len(pChan) < ncpu
    /\ pChan' = Append(pChan, pWorkers[w].val)
    /\ pWorkers' = [pWorkers EXCEPT ![w].pc = "loop", ![w].i = @ + 1, ![w].val = 0]
    /\ UNCHANGED <<ncpu, ps, pCall, pChanClosed, pWg, pCloser, pMain, pR, pCalls>>
    /\ UNCHANGED <<slVars, rvVars, foVars, fiVars, cmpVars, setVars>>

\* The range loop of a worker is over: wg.Done().
WorkerDone(w) ==
    /\ pWorkers[w].pc = "loop"
    /\ CurIndex(w) >= pWorkers[w].end
    /\ pWorkers' = [pWorkers EXCEPT ![w].pc = "done"]
    /\ pWg' = pWg - 1
    /\ UNCHANGED <<ncpu, ps, pCall, pChan, pChanClosed, pCloser, pMain, pR, pCalls>>
    /\ UNCHANGED <<slVars, rvVars, foVars, fiVars, cmpVars, setVars>>

\* (A closer that closes c without waiting for the workers.)
CloserCloseEarly ==
    /\ pCloser = "wait"
    /\ pCloser' = "done"
    /\ pChanClosed' = TRUE
    /\ UNCHANGED <<ncpu, ps, pCall, pWorkers, pChan, pWg, pMain, pR, pCalls>>
    /\ UNCHANGED <<slVars, rvVars, foVars, fiVars, cmpVars, setVars>>

\* go func() { wg.Wait(); close(c) }()
CloserClose ==
    /\ pCloser = "wait"
    /\ pWg = 0
    /\ pCloser' = "done"
    /\ pChanClosed' = TRUE
    /\ UNCHANGED <<ncpu, ps, pCall, pWorkers, pChan, pWg, pMain, pR, pCalls>>
    /\ UNCHANGED <<slVars, rvVars, foVars, fiVars, cmpVars, setVars>>

\* What the collecting loop does with a received value: PMap r[v.i] = v.v,
\* PFilter r = append(r, v).
Collect(op, r, x) ==
    IF op = "PMap"
    THEN SliceOf([r.elems EXCEPT ![x[1] + 1] = x[2]])
    ELSE SliceOf(Append(r.elems, x))

\* for v := range c: one value received.
MainRecv ==
    /\ pMain = "collect"
    /\ pChan # <<>>
    /\ pR' = Collect(pCall.op, pR, Head(pChan))
    /\ pChan' = Tail(pChan)
    /\ UNCHANGED <<ncpu, ps, pCall, pWorkers, pChanClosed, pWg, pCloser, pMain, pCalls>>
    /\ UNCHANGED <<slVars, rvVars, foVars, fiVars, cmpVars, setVars>>

\* The range over c ends when c is closed and drained (PMap, PFilter);
\* wg.Wait() returns when the counter is zero (PForEach).
MainReturn ==
    /\ \/ pMain = "collect" /\ pChan = <<>> /\ pChanClosed
       \/ pMain = "wait" /\ pWg = 0
    /\ pMain' = "returned"
    /\ UNCHANGED <<ncpu, ps, pCall, pWorkers, pChan, pChanClosed, pWg, pCloser, pR, pCalls>>
    /\ UNCHANGED <<slVars, rvVars, foVars, fiVars, cmpVars, setVars>>

parNext ==
    \/ CallPMap
    \/ CallPFilter
    \/ CallPForEach
    \/ \E w \in DOMAIN pWorkers : WorkerCallF(w)
    \/ \E w \in DOMAIN pWorkers : WorkerFReturns(w)
    \/ \E w \in DOMAIN pWorkers : WorkerSend(w)
    \/ \E w \in DOMAIN pWorkers : WorkerDone(w)
    \/ CloserClose
    \/ MainRecv
    \/ MainReturn

\* Every goroutine that can take a step eventually takes one (the Go
\* scheduler), and f returns.
parFairness ==
    /\ WF_vars(CloserClose)
    /\ WF_vars(MainRecv)
    /\ WF_vars(MainReturn)
    /\ \A w \in 1..MaxCPU :
          /\ WF_vars(w \in DOMAIN pWorkers /\ WorkerCallF(w))
          /\ WF_vars(w \in DOMAIN pWorkers /\ WorkerFReturns(w))
          /\ WF_vars(w \in DOMAIN pWorkers /\ WorkerSend(w))
          /\ WF_vars(w \in DOMAIN pWorkers /\ WorkerDone(w))

(***************************************************************************)
(* Recv(ctx, c, s): the sender of c, the cancellation of ctx, and the loop *)
(* of Recv, one select per step.                                           *)
(***************************************************************************)
\* The values a sender sends: 1, 2, ..., k.
Sent(k) == [e \in 1..k |-> e]

NoResult == [n |-> 0, closed |-> FALSE, err |-> "none"]
NoHist == [taken |-> <<>>, obs |-> "none", preCancelled |-> FALSE, preReady |-> FALSE]

rvIdle ==
    /\ rvToSend = <<>>
    /\ rvChan = <<>>
    /\ rvClosed = FALSE
    /\ rvCancelled = FALSE
    /\ rvBuf = <<>>
    /\ rvI = 0
    /\ rvN = 0
    /\ rvPc = "idle"
    /\ rvRes = NoResult
    /\ rvHist = NoHist

rvInit ==
    /\ \E k \in 0..MaxElems : rvToSend = Sent(k)
    /\ rvChan = <<>>
    /\ rvClosed = FALSE
    /\ rvCancelled = FALSE
    /\ rvBuf = <<>>
    /\ rvI = 0
    /\ rvN = 0
    /\ rvPc = "idle"
    /\ rvRes = NoResult
    /\ rvHist = NoHist

\* The sender's next value becomes ready on c.
rvSenderSend ==
    /\ rvToSend # <<>>
    /\ ~rvClosed
    /\ Len(rvChan) < ChanCap
    /\ rvChan' = Append(rvChan, Head(rvToSend))
    /\ rvToSend' = Tail(rvToSend)
    /\ UNCHANGED <<rvClosed, rvCancelled, rvBuf, rvI, rvN, rvPc, rvRes, rvHist>>
    /\ UNCHANGED <<slVars, parVars, foVars, fiVars, cmpVars, setVars>>

\* The sender closes c after its last send (a sender may also never do so).
rvSenderClose ==
    /\ ~rvClosed
    /\ rvToSend = <<>>
    /\ rvClosed' = TRUE
    /\ UNCHANGED <<rvToSend, rvChan, rvCancelled, rvBuf, rvI, rvN, rvPc, rvRes, rvHist>>
    /\ UNCHANGED <<slVars, parVars, foVars, fiVars, cmpVars, setVars>>

\* ctx is cancelled (cancel() or the deadline), before or during the call.
rvCancel ==
    /\ ~rvCancelled
    /\ rvCancelled' = TRUE
    /\ UNCHANGED <<rvToSend, rvChan, rvClosed, rvBuf, rvI, rvN, rvPc, rvRes, rvHist>>
    /\ UNCHANGED <<slVars, parVars, foVars, fiVars, cmpVars, setVars>>

\* Recv is called with a buffer of some length.
RecvCall ==
    /\ rvPc = "idle"
    /\ \E l \in 0..MaxBuf : rvBuf' = Zeros(l)
    /\ rvI' = 0
    /\ rvN' = 0
    /\ rvPc' = "loop"
    /\ rvHist' = [rvHist EXCEPT !.preCancelled = rvCancelled, !.preReady = rvChan # <<>>]
    /\ UNCHANGED <<rvToSend, rvChan, rvClosed, rvCancelled, rvRes>>
    /\ UNCHANGED <<slVars, parVars, foVars, fiVars, cmpVars, setVars>>

\* The loop `for i := range s` has another iteration, whose select waits.
InSelect == rvPc = "loop" /\ rvI < Len(rvBuf)

\* (A select that would take ctx.Done() only when no value is ready.)
CtxDoneReadyAfterData == rvCancelled /\ rvChan = <<>>

\* The cases of the select that can proceed.
CtxDoneReady == rvCancelled
ValueReady == rvChan # <<>>
ClosedReady == rvChan = <<>> /\ rvClosed

\* (A return on cancellation that drops the count of the values received.)
OnCtxDoneDropsCount(n) == [n |-> 0, closed |-> FALSE, err |-> "ctx.Err"]

\* return n, false, ctx.Err()
OnCtxDone(n) == [n |-> n, closed |-> FALSE, err |-> "ctx.Err"]
\* return n, true, nil
OnClosed(n) == [n |-> n, closed |-> TRUE, err |-> "nil"]
\* return n, false, nil
OnFull(n) == [n |-> n, closed |-> FALSE, err |-> "nil"]
\* s[i] = v
Store(buf, i, v) == [buf EXCEPT ![i + 1] = v]

Return(res, obs) ==
    /\ rvPc' = "returned"
    /\ rvRes' = res
    /\ rvHist' = [rvHist EXCEPT !.obs = obs]
    /\ UNCHANGED <<rvToSend, rvChan, rvClosed, rvCancelled, rvBuf, rvI, rvN>>
    /\ UNCHANGED <<slVars, parVars, foVars, fiVars, cmpVars, setVars>>

\* case <-ctx.Done(): return n, false, ctx.Err()
RecvCtxDone ==
    /\ InSelect
    /\ CtxDoneReady
    /\ Return(OnCtxDone(rvN), "cancelled")

\* case v, ok := <-c with ok: s[i] = v; n++
RecvValue ==
    /\ InSelect
    /\ ValueReady
    /\ rvBuf' = Store(rvBuf, rvI, Head(rvChan))
    /\ rvChan' = Tail(rvChan)
    /\ rvN' = rvN + 1
    /\ rvI' = rvI + 1
    /\ rvHist' = [rvHist EXCEPT !.taken = Append(@, Head(rvChan))]
    /\ UNCHANGED <<rvToSend, rvClosed, rvCancelled, rvPc, rvRes>>
    /\ UNCHANGED <<slVars, parVars, foVars, fiVars, cmpVars, setVars>>

\* case v, ok := <-c with !ok: return n, true, nil
RecvClosed ==
    /\ InSelect
    /\ ClosedReady
    /\ Return(OnClosed(rvN), "closed")

\* The loop is over: return n, false, nil
RecvFull ==
    /\ rvPc = "loop"
    /\ rvI >= Len(rvBuf)
    /\ Return(OnFull(rvN), "full")

rvNext ==
    \/ rvSenderSend
    \/ rvSenderClose
    \/ rvCancel
    \/ RecvCall
    \/ RecvCtxDone
    \/ RecvValue
    \/ RecvClosed
    \/ RecvFull

(***************************************************************************)
(* FanOut(ctx, n, input): n output goroutines, each ranging over input and *)
(* sending what it receives on its own unbuffered channel, whose consumer  *)
(* takes part in the send.                                                 *)
(***************************************************************************)
foIdle ==
    /\ foN = 0
    /\ foCloses = FALSE
    /\ foAll = <<>>
    /\ foToSend = <<>>
    /\ foIn = <<>>
    /\ foInClosed = FALSE
    /\ foCancelled = FALSE
    /\ foPc = <<>>
    /\ foHeld = <<>>
    /\ foOutClosed = <<>>
    /\ foGot = <<>>
    /\ foLost = {}

\* The state when FanOut returns: n goroutines started, n channels made.
foInit ==
    /\ foN \in 0..MaxOut
    /\ foCloses \in BOOLEAN
    /\ \E k \in 0..MaxElems : foAll = Sent(k)
    /\ foToSend = foAll
    /\ foIn = <<>>
    /\ foInClosed = FALSE
    /\ foCancelled = FALSE
    /\ foPc = [w \in 1..foN |-> "range"]
    /\ foHeld = [w \in 1..foN |-> 0]
    /\ foOutClosed = [w \in 1..foN |-> FALSE]
    /\ foGot = [w \in 1..foN |-> <<>>]
    /\ foLost = {}

\* The sender's next value becomes ready on input.
foSenderSend ==
    /\ foToSend # <<>>
    /\ ~foInClosed
    /\ Len(foIn) < ChanCap
    /\ foIn' = Append(foIn, Head(foToSend))
    /\ foToSend' = Tail(foToSend)
    /\ UNCHANGED <<foN, foCloses, foAll, foInClosed, foCancelled, foPc, foHeld, foOutClosed,
                   foGot, foLost>>
    /\ UNCHANGED <<slVars, parVars, rvVars, fiVars, cmpVars, setVars>>

\* The sender closes input after its last value, if it ever does.
foSenderClose ==
    /\ foCloses
    /\ ~foInClosed
    /\ foToSend = <<>>
    /\ foInClosed' = TRUE
    /\ UNCHANGED <<foN, foCloses, foAll, foToSend, foIn, foCancelled, foPc, foHeld, foOutClosed,
                   foGot, foLost>>
    /\ UNCHANGED <<slVars, parVars, rvVars, fiVars, cmpVars, setVars>>

\* ctx is cancelled.
foCancel ==
    /\ ~foCancelled
    /\ foCancelled' = TRUE
    /\ UNCHANGED <<foN, foCloses, foAll, foToSend, foIn, foInClosed, foPc, foHeld, foOutClosed,
                   foGot, foLost>>
    /\ UNCHANGED <<slVars, parVars, rvVars, fiVars, cmpVars, setVars>>

\* (A FanOut that replicates every value on every output channel.)
DeliverToAll(got, w, v) == [x \in DOMAIN got |-> Append(got[x], v)]

\* c <- v completes: the consumer of output w receives v.
Deliver(got, w, v) == [got EXCEPT ![w] = Append(@, v)]

\* for v := range input: goroutine w receives a value.
foWorkerRecv(w) ==
    /\ w \in DOMAIN foPc
    /\ foPc[w] = "range"
    /\ foIn # <<>>
    /\ foHeld' = [foHeld EXCEPT ![w] = Head(foIn)]
    /\ foIn' = Tail(foIn)
    /\ foPc' = [foPc EXCEPT ![w] = "select"]
    /\ UNCHANGED <<foN, foCloses, foAll, foToSend, foInClosed, foCancelled, foOutClosed, foGot,
                   foLost>>
    /\ UNCHANGED <<slVars, parVars, rvVars, fiVars, cmpVars, setVars>>

\* for v := range input ends: input is closed and drained; defer close(c).
foWorkerInputClosed(w) ==
    /\ w \in DOMAIN foPc
    /\ foPc[w] = "range"
    /\ foIn = <<>>
    /\ foInClosed
    /\ foPc' = [foPc EXCEPT ![w] = "done"]
    /\ foOutClosed' = [foOutClosed EXCEPT ![w] = TRUE]
    /\ UNCHANGED <<foN, foCloses, foAll, foToSend, foIn, foInClosed, foCancelled, foHeld, foGot,
                   foLost>>
    /\ UNCHANGED <<slVars, parVars, rvVars, fiVars, cmpVars, setVars>>

\* select: case c <- v
foWorkerSend(w) ==
    /\ w \in DOMAIN foPc
    /\ foPc[w] = "select"
    /\ foGot' = Deliver(foGot, w, foHeld[w])
    /\ foHeld' = [foHeld EXCEPT ![w] = 0]
    /\ foPc' = [foPc EXCEPT ![w] = "range"]
    /\ UNCHANGED <<foN, foCloses, foAll, foToSend, foIn, foInClosed, foCancelled, foOutClosed,
                   foLost>>
    /\ UNCHANGED <<slVars, parVars, rvVars, fiVars, cmpVars, setVars>>

\* select: case <-ctx.Done(): return; defer close(c).
foWorkerCtxDone(w) ==
    /\ w \in DOMAIN foPc
    /\ foPc[w] = "select"
    /\ foCancelled
    /\ foLost' = foLost \cup {foHeld[w]}
    /\ foHeld' = [foHeld EXCEPT ![w] = 0]
    /\ foPc' = [foPc EXCEPT ![w] = "done"]
    /\ foOutClosed' = [foOutClosed EXCEPT ![w] = TRUE]
    /\ UNCHANGED <<foN, foCloses, foAll, foToSend, foIn, foInClosed, foCancelled, foGot>>
    /\ UNCHANGED <<slVars, parVars, rvVars, fiVars, cmpVars, setVars>>

foNext ==
    \/ foSenderSend
    \/ foSenderClose
    \/ foCancel
    \/ \E w \in DOMAIN foPc : foWorkerRecv(w)
    \/ \E w \in DOMAIN foPc : foWorkerInputClosed(w)
    \/ \E w \in DOMAIN foPc : foWorkerSend(w)
    \/ \E w \in DOMAIN foPc : foWorkerCtxDone(w)

\* Every goroutine that can take a step eventually takes one (the Go
\* scheduler), and the consumers of the output channels keep receiving.
foFairness ==
    /\ WF_vars(foSenderSend)
    /\ WF_vars(foSenderClose)
    /\ \A w \in 1..MaxOut :
          /\ WF_vars(foWorkerRecv(w))
          /\ WF_vars(foWorkerInputClosed(w))
          /\ WF_vars(foWorkerSend(w))
          /\ WF_vars(foWorkerCtxDone(w))

(***************************************************************************)
(* FanIn(ctx, cs...): one output goroutine per input channel, each ranging *)
(* over its input and sending on the unbuffered channel out, whose         *)
(* consumer takes part in the send; a goroutine closes out after wg.Wait().*)
(***************************************************************************)
fiIdle ==
    /\ fiCloses = <<>>
    /\ fiAll = <<>>
    /\ fiToSend = <<>>
    /\ fiIn = <<>>
    /\ fiInClosed = <<>>
    /\ fiCancelled = FALSE
    /\ fiPc = <<>>
    /\ fiHeld = <<>>
    /\ fiWg = 0
    /\ fiCloser = "none"
    /\ fiOutClosed = FALSE
    /\ fiGot = <<>>
    /\ fiLost = {}

\* The state when FanIn returns: wg.Add(len(cs)), one goroutine per input
\* started, the closing goroutine started.
fiInit ==
    /\ \E m \in 0..MaxIn :
          /\ fiCloses \in [1..m -> BOOLEAN]
          /\ fiAll \in [1..m -> {Sent(k) : k \in 0..MaxInElems}]
          /\ fiIn = [c \in 1..m |-> <<>>]
          /\ fiInClosed = [c \in 1..m |-> FALSE]
          /\ fiPc = [c \in 1..m |-> "range"]
          /\ fiHeld = [c \in 1..m |-> 0]
          /\ fiWg = m
          /\ fiGot = [c \in 1..m |-> <<>>]
    /\ fiToSend = fiAll
    /\ fiCancelled = FALSE
    /\ fiCloser = "wait"
    /\ fiOutClosed = FALSE
    /\ fiLost = {}

\* The next value of the sender of input c becomes ready.
fiSenderSend(c) ==
    /\ c \in DOMAIN fiPc
    /\ fiToSend[c] # <<>>
    /\ ~fiInClosed[c]
    /\ Len(fiIn[c]) < ChanCap
    /\ fiIn' = [fiIn EXCEPT ![c] = Append(@, Head(fiToSend[c]))]
    /\ fiToSend' = [fiToSend EXCEPT ![c] = Tail(@)]
    /\ UNCHANGED <<fiCloses, fiAll, fiInClosed, fiCancelled, fiPc, fiHeld, fiWg, fiCloser,
                   fiOutClosed, fiGot, fiLost>>
    /\ UNCHANGED <<slVars, parVars, rvVars, foVars, cmpVars, setVars>>

\* The sender of input c closes it after its last value, if it ever does.
fiSenderClose(c) ==
    /\ c \in DOMAIN fiPc
    /\ fiCloses[c]
    /\ ~fiInClosed[c]
    /\ fiToSend[c] = <<>>
    /\ fiInClosed' = [fiInClosed EXCEPT ![c] = TRUE]
    /\ UNCHANGED <<fiCloses, fiAll, fiToSend, fiIn, fiCancelled, fiPc, fiHeld, fiWg, fiCloser,
                   fiOutClosed, fiGot, fiLost>>
    /\ UNCHANGED <<slVars, parVars, rvVars, foVars, cmpVars, setVars>>

\* ctx is cancelled.
fiCancel ==
    /\ ~fiCancelled
    /\ fiCancelled' = TRUE
    /\ UNCHANGED <<fiCloses, fiAll, fiToSend, fiIn, fiInClosed, fiPc, fiHeld, fiWg, fiCloser,
                   fiOutClosed, fiGot, fiLost>>
    /\ UNCHANGED <<slVars, parVars, rvVars, foVars, cmpVars, setVars>>

\* for n := range c: the goroutine of input c receives a value.
fiWorkerRecv(c) ==
    /\ c \in DOMAIN fiPc
    /\ fiPc[c] = "range"
    /\ fiIn[c] # <<>>
    /\ fiHeld' = [fiHeld EXCEPT ![c] = Head(fiIn[c])]
    /\ fiIn' = [fiIn EXCEPT ![c] = Tail(@)]
    /\ fiPc' = [fiPc EXCEPT ![c] = "select"]
    /\ UNCHANGED <<fiCloses, fiAll, fiToSend, fiInClosed, fiCancelled, fiWg, fiCloser,
                   fiOutClosed, fiGot, fiLost>>
    /\ UNCHANGED <<slVars, parVars, rvVars, foVars, cmpVars, setVars>>

\* for n := range c ends: c is closed and drained; defer wg.Done().
fiWorkerInputClosed(c) ==
    /\ c \in DOMAIN fiPc
    /\ fiPc[c] = "range"
    /\ fiIn[c] = <<>>
    /\ fiInClosed[c]
    /\ fiPc' = [fiPc EXCEPT ![c] = "done"]
    /\ fiWg' = fiWg - 1
    /\ UNCHANGED <<fiCloses, fiAll, fiToSend, fiIn, fiInClosed, fiCancelled, fiHeld, fiCloser,
                   fiOutClosed, fiGot, fiLost>>
    /\ UNCHANGED <<slVars, parVars, rvVars, foVars, cmpVars, setVars>>

\* select: case out <- n, the consumer of out receiving n.
fiWorkerSend(c) ==
    /\ c \in DOMAIN fiPc
    /\ fiPc[c] = "select"
    /\ fiGot' = [fiGot EXCEPT ![c] = Append(@, fiHeld[c])]
    /\ fiHeld' = [fiHeld EXCEPT ![c] = 0]
    /\ fiPc' = [fiPc EXCEPT ![c] = "range"]
    /\ UNCHANGED <<fiCloses, fiAll, fiToSend, fiIn, fiInClosed, fiCancelled, fiWg, fiCloser,
                   fiOutClosed, fiLost>>
    /\ UNCHANGED <<slVars, parVars, rvVars, foVars, cmpVars, setVars>>

\* (A goroutine that drops its value on ctx.Done() and goes on with the
\* loop.)
fiWorkerCtxDoneContinues(c) ==
    /\ c \in DOMAIN fiPc
    /\ fiPc[c] = "select"
    /\ fiCancelled
    /\ fiLost' = fiLost \cup {<<c, fiHeld[c]>>}
    /\ fiHeld' = [fiHeld EXCEPT ![c] = 0]
    /\ fiPc' = [fiPc EXCEPT ![c] = "range"]
    /\ UNCHANGED <<fiCloses, fiAll, fiToSend, fiIn, fiInClosed, fiCancelled, fiWg, fiCloser,
                   fiOutClosed, fiGot>>
    /\ UNCHANGED <<slVars, parVars, rvVars, foVars, cmpVars, setVars>>

\* select: case <-ctx.Done(): return; defer wg.Done().
fiWorkerCtxDone(c) ==
    /\ c \in DOMAIN fiPc
    /\ fiPc[c] = "select"
    /\ fiCancelled
    /\ fiLost' = fiLost \cup {<<c, fiHeld[c]>>}
    /\ fiHeld' = [fiHeld EXCEPT ![c] = 0]
    /\ fiPc' = [fiPc EXCEPT ![c] = "done"]
    /\ fiWg' = fiWg - 1
    /\ UNCHANGED <<fiCloses, fiAll, fiToSend, fiIn, fiInClosed, fiCancelled, fiCloser,
                   fiOutClosed, fiGot>>
    /\ UNCHANGED <<slVars, parVars, rvVars, foVars, cmpVars, setVars>>

\* (A wg.Wait() that does not wait for the output goroutines.)
WaitReturnsEarly(wg) == TRUE

\* wg.Wait() returns when the counter is zero.
WaitReturns(wg) == wg = 0

\* go func() { wg.Wait(); close(out) }()
fiCloserClose ==
    /\ fiCloser = "wait"
    /\ WaitReturns(fiWg)
    /\ fiCloser' = "done"
    /\ fiOutClosed' = TRUE
    /\ UNCHANGED <<fiCloses, fiAll, fiToSend, fiIn, fiInClosed, fiCancelled, fiPc, fiHeld, fiWg,
                   fiGot, fiLost>>
    /\ UNCHANGED <<slVars, parVars, rvVars, foVars, cmpVars, setVars>>

fiNext ==
    \/ \E c \in DOMAIN fiPc : fiSenderSend(c)
    \/ \E c \in DOMAIN fiPc : fiSenderClose(c)
    \/ fiCancel
    \/ \E c \in DOMAIN fiPc : fiWorkerRecv(c)
    \/ \E c \in DOMAIN fiPc : fiWorkerInputClosed(c)
    \/ \E c \in DOMAIN fiPc : fiWorkerSend(c)
    \/ \E c \in DOMAIN fiPc : fiWorkerCtxDone(c)
    \/ fiCloserClose

\* Every goroutine that can take a step eventually takes one (the Go
\* scheduler), and the consumer of out keeps receiving.
fiFairness ==
    /\ WF_vars(fiCloserClose)
    /\ \A c \in 1..MaxIn :
          /\ WF_vars(fiSenderSend(c))
          /\ WF_vars(fiSenderClose(c))
          /\ WF_vars(fiWorkerRecv(c))
          /\ WF_vars(fiWorkerInputClosed(c))
          /\ WF_vars(fiWorkerSend(c))
          /\ WF_vars(fiWorkerCtxDone(c))

(***************************************************************************)
(* Properties of the parallel operations.                                  *)
(***************************************************************************)
\* The call of operation op on a non-nil slice has returned.
ReturnedFrom(op) == pMain = "returned" /\ pCall.op = op

\* The number of positions of the sequence es holding v.
Occurrences(es, v) == Cardinality({k \in 1..Len(es) : es[k] = v})

\* The sequences a and b hold the same elements with the same multiplicities.
IsPermutation(a, b) ==
    /\ Len(a) = Len(b)
    /\ \A k \in 1..Len(a) : Occurrences(a, a[k]) = Occurrences(b, a[k])

\* The indices no goroutine is given: start = g*step stops at
\* ngoroutines*step, which is less than n when ngoroutines does not divide n.
Uncovered == { k \in 1..Len(ps.elems) : \A w \in DOMAIN pWorkers :
                  ~(pWorkers[w].start < k /\ k <= pWorkers[w].end) }

\* C4: for every non-nil slice s, every f, every worker count and every
\* interleaving, PMap(s, f) returns what Map(s, f) returns: a slice of length
\* len(s) holding f(i, s[i]) at every index i.
C4_PMapEqualsMap ==
    (ReturnedFrom("PMap") /\ ~ps.isNil) =>
        /\ pR = Map(ps, pCall.f)
        /\ Len(pR.elems) = Len(ps.elems)
        /\ \A k \in 1..Len(ps.elems) : pR.elems[k] = ApplyMap(pCall.f, k - 1, ps.elems[k])

\* PMap returned and an index no goroutine was given still holds the zero value.
C4_Witness ==
    /\ ReturnedFrom("PMap") /\ ~ps.isNil
    /\ \E k \in Uncovered : pR.elems[k] = 0

\* C5: for every non-nil slice s, every predicate f, every worker count and
\* every interleaving, PFilter(s, f) returns a permutation of Filter(s, f).
C5_PFilterPermutesFilter ==
    (ReturnedFrom("PFilter") /\ ~ps.isNil) =>
        IsPermutation(pR.elems, Filter(ps, pCall.f).elems)

\* PFilter returned fewer elements than Filter does.
C5_Witness ==
    /\ ReturnedFrom("PFilter") /\ ~ps.isNil
    /\ Uncovered # {}
    /\ Len(pR.elems) < Len(Filter(ps, pCall.f).elems)

\* C6: when PForEach(s, f) returns, f has been invoked exactly once for every
\* index i with (i, s[i]), and no invocation is running or pending.
C6_PForEachCallsEveryIndexOnce ==
    ReturnedFrom("PForEach") =>
        /\ \A k \in 1..Len(ps.elems) : pCalls[k] = <<ps.elems[k]>>
        /\ \A w \in DOMAIN pWorkers : pWorkers[w].pc = "done"

\* PForEach returned and f was never invoked for some index.
C6_Witness ==
    /\ ReturnedFrom("PForEach")
    /\ \E k \in Uncovered : pCalls[k] = <<>>

\* PFilter or PMap was called on a non-nil slice.
CollectingCall == pCall.op \in {"PFilter", "PMap"} /\ ~ps.isNil

\* Every worker has finished its chunk and called wg.Done().
AllWorkersDone == \A w \in DOMAIN pWorkers : pWorkers[w].pc = "done"

\* C29: PFilter and PMap always return: for every slice, worker count and
\* interleaving (f terminating) every worker finishes its chunk, the result
\* channel is closed once and only after the last send of the last worker,
\* the collecting loop ends, and no goroutine is left blocked.
C29_ParallelAlwaysReturns ==
    /\ [](CollectingCall =>
            /\ pWg = Cardinality({w \in DOMAIN pWorkers : pWorkers[w].pc # "done"})
            /\ pChanClosed <=> pCloser = "done"
            /\ pChanClosed => AllWorkersDone
            /\ pMain = "returned" =>
                  AllWorkersDone /\ pCloser = "done" /\ pChanClosed /\ pChan = <<>>)
    /\ (pCall.op \in {"PFilter", "PMap"}) ~> (pMain = "returned")

\* PFilter returned after two workers sent the elements that satisfy f.
C29_Witness ==
    /\ CollectingCall /\ pCall.op = "PFilter"
    /\ pMain = "returned"
    /\ Len(pWorkers) = 2 /\ Len(pR.elems) >= 2
    /\ pChanClosed /\ AllWorkersDone

(***************************************************************************)
(* Properties of Recv.                                                     *)
(***************************************************************************)
\* C9: Recv returns (n, closed, err) with 0 <= n <= len(buf) and buf[0..n)
\* the n values it received from c, in channel order; (n, true, nil) exactly
\* when it observed c closed, (n, false, ctx.Err()) exactly when it observed
\* cancellation, (len(buf), false, nil) when the buffer was filled; closed
\* never comes with an error; values received are never discarded.
C9_RecvResult ==
    /\ rvPc # "idle" => SubSeq(rvBuf, 1, rvN) = rvHist.taken
    /\ rvPc = "returned" =>
        /\ rvRes.n \in 0..Len(rvBuf)
        /\ Len(rvHist.taken) = rvRes.n
        /\ SubSeq(rvBuf, 1, rvRes.n) = rvHist.taken
        /\ rvHist.taken = Sent(rvRes.n)
        /\ rvHist.obs = "closed" <=> rvRes = OnClosed(rvRes.n)
        /\ rvHist.obs = "cancelled" <=> (rvRes = OnCtxDone(rvRes.n) /\ rvRes.err # "nil")
        /\ rvHist.obs = "full" <=> (rvRes.err = "nil" /\ ~rvRes.closed)
        /\ rvHist.obs = "full" => rvRes.n = Len(rvBuf)
        /\ rvRes.closed => (rvRes.err = "nil" /\ rvClosed /\ rvChan = <<>>)
        /\ rvRes.err # "nil" => (rvCancelled /\ ~rvRes.closed)

\* Recv returned on cancellation after it had received a value, which is in
\* the buffer.
C9_Witness ==
    /\ rvPc = "returned"
    /\ rvRes = [n |-> 1, closed |-> FALSE, err |-> "ctx.Err"]
    /\ Len(rvBuf) = 2 /\ rvBuf[1] = 1

\* C10: when Recv waits in its select with ctx cancelled and a value ready
\* on c (in particular when it is called so), both cases can be taken: it may
\* return (n, false, ctx.Err()) at once and it may receive the value first.
C10_NoPriorityForData ==
    (InSelect /\ rvCancelled /\ rvChan # <<>>) =>
        (ENABLED RecvCtxDone /\ ENABLED RecvValue)

\* Recv was called with ctx cancelled and a value ready, and returned
\* (0, false, ctx.Err()) with the value still on the channel.
C10_Witness ==
    /\ rvPc = "returned"
    /\ rvHist.preCancelled /\ rvHist.preReady
    /\ Len(rvBuf) > 0
    /\ rvRes = [n |-> 0, closed |-> FALSE, err |-> "ctx.Err"]
    /\ rvChan # <<>>

(***************************************************************************)
(* Properties of FanOut.                                                   *)
(***************************************************************************)
\* The number of times value e was received on the output channels.
foDelivered(e) ==
    Cardinality({x \in (DOMAIN foGot) \X (1..MaxElems) :
                    x[2] <= Len(foGot[x[1]]) /\ foGot[x[1]][x[2]] = e})

\* The number of places value e is at: still with the sender, ready on
\* input, held by a goroutine in its select, or received on an output.
foPlaces(e) ==
    Occurrences(foToSend, e) + Occurrences(foIn, e)
    + Cardinality({w \in DOMAIN foPc : foPc[w] = "select" /\ foHeld[w] = e})
    + foDelivered(e)

foAllOutClosed == \A w \in DOMAIN foOutClosed : foOutClosed[w]

\* Every value sent on input was received on exactly one output, once.
foAllDelivered == \A k \in 1..Len(foAll) : foDelivered(foAll[k]) = 1

\* C7: with ctx never cancelled, an input that is eventually closed and
\* consumers draining every output, FanOut(ctx, n, input) with n >= 1
\* delivers every element sent on input on exactly one output exactly once
\* (never twice, never lost), and every output is eventually closed.
C7_FanOutExactlyOnce ==
    /\ [](~foCancelled =>
            /\ \A k \in 1..Len(foAll) : foPlaces(foAll[k]) = 1
            /\ (foN >= 1 /\ foAllOutClosed) => foAllDelivered)
    /\ <>(foCancelled \/ ~foCloses \/ foN = 0 \/ (foAllOutClosed /\ foAllDelivered))

\* Without cancellation every output is closed, and two outputs each
\* delivered some of the three values sent.
C7_Witness ==
    /\ ~foCancelled /\ foN = 2 /\ Len(foAll) = 3
    /\ foAllOutClosed /\ foAllDelivered
    /\ foGot[1] # <<>> /\ foGot[2] # <<>>

(***************************************************************************)
(* Properties of FanIn.                                                    *)
(***************************************************************************)
\* The value the goroutine of input c holds in its select, as a sequence.
fiInFlight(c) == IF fiPc[c] = "select" THEN <<fiHeld[c]>> ELSE <<>>

fiAllInClosed == \A c \in DOMAIN fiInClosed : fiInClosed[c]

\* C8: with ctx never cancelled, out is closed only after every input has
\* been closed and every element received from an input has been delivered
\* on out; the elements of each input are delivered exactly once and in that
\* input's order; once all inputs are closed (and out is drained) out is
\* eventually closed.
C8_FanInClosesAfterInputs ==
    /\ [](~fiCancelled =>
            /\ \A c \in DOMAIN fiPc :
                  fiGot[c] \o fiInFlight(c) \o fiIn[c] \o fiToSend[c] = fiAll[c]
            /\ fiOutClosed =>
                  \A c \in DOMAIN fiPc : fiInClosed[c] /\ fiGot[c] = fiAll[c])
    /\ (fiAllInClosed ~> (fiCancelled \/ fiOutClosed))

\* Without cancellation out is closed after two inputs delivered all their
\* values.
C8_Witness ==
    /\ ~fiCancelled /\ fiOutClosed
    /\ DOMAIN fiPc = {1, 2}
    /\ fiGot[1] = Sent(2) /\ fiGot[2] = Sent(1)
    /\ fiAllInClosed

(***************************************************************************)
(* Properties of Compare.                                                  *)
(***************************************************************************)
\* The positions within both slices at which one element is less than the
\* other.
Deciding(s1, s2) ==
    { k \in 1..Min(Len(s1), Len(s2)) :
        \/ ~s1[k].nan /\ ~s2[k].nan /\ s1[k].v < s2[k].v
        \/ ~s1[k].nan /\ ~s2[k].nan /\ s2[k].v < s1[k].v }

\* C20: Compare(s1, s2) returns, at the smallest index k within both slices
\* where s1[k] < s2[k] or s2[k] < s1[k], -1 or +1 respectively; pairs where
\* neither is less (equal elements, or a NaN) are skipped; with no such k it
\* returns -1, +1 or 0 as len(s1) is less than, greater than or equal to
\* len(s2).
C20_CompareLexicographic ==
    cmpOp = "Compare" =>
        LET ks == Deciding(cmpS1, cmpS2)
        IN  IF ks # {}
            THEN LET k == CHOOSE x \in ks : \A y \in ks : x <= y
                 IN  cmpRes = IF cmpS1[k].v < cmpS2[k].v THEN -1 ELSE 1
            ELSE cmpRes = IF Len(cmpS1) < Len(cmpS2) THEN -1
                          ELSE IF Len(cmpS1) > Len(cmpS2) THEN 1
                          ELSE 0

\* Compare skipped a pair with a NaN and then found the shorter slice to be
\* a prefix of the longer one.
C20_Witness ==
    /\ cmpOp = "Compare"
    /\ Len(cmpS1) = 1 /\ Len(cmpS2) = 2
    /\ cmpS1[1] = NaN /\ cmpS2[1] = Num(1)
    /\ cmpRes = -1

\* Neither slice holds a NaN: equality of the elements is reflexive.
NoNaN ==
    /\ \A k \in 1..Len(cmpS1) : ~cmpS1[k].nan
    /\ \A k \in 1..Len(cmpS2) : ~cmpS2[k].nan

\* C21: without NaN, Equal(s, s) is true, Equal(s1, s2) = Equal(s2, s1),
\* Equal is true exactly when the lengths match and s1[k] = s2[k] for every
\* k, and a nil slice and an empty non-nil slice are equal.
C21_EqualIsEquality ==
    (cmpOp = "Equal" /\ NoNaN) =>
        /\ Equal(cmpS1, cmpS1) /\ Equal(cmpS2, cmpS2)
        /\ cmpRes = Equal(cmpS2, cmpS1)
        /\ cmpRes <=> /\ Len(cmpS1) = Len(cmpS2)
                      /\ \A k \in 1..Len(cmpS1) : cmpS1[k].v = cmpS2[k].v
        /\ (cmpS1 = <<>> /\ cmpS2 = <<>> /\ cmpNil[1] # cmpNil[2]) => cmpRes

\* Equal returned false for two slices of the same length that differ only
\* in their last element, the left one being the larger.
C21_Witness ==
    /\ cmpOp = "Equal" /\ NoNaN
    /\ Len(cmpS1) = 2 /\ Len(cmpS2) = 2
    /\ cmpS1[1] = cmpS2[1] /\ cmpS1[2].v > cmpS2[2].v
    /\ cmpRes = FALSE

\* C26: without NaN, Compare(s1, s2) = 0 if and only if Equal(s1, s2), nil
\* and empty slices included.
C26_CompareZeroIffEqual ==
    NoNaN =>
        /\ cmpOp = "Compare" => (cmpRes = 0 <=> Equal(cmpS1, cmpS2))
        /\ cmpOp = "Equal" => (cmpRes <=> Compare(cmpS1, cmpS2) = 0)

\* Compare returned 0 for two equal non-empty slices.
C26_Witness ==
    /\ cmpOp = "Compare" /\ NoNaN
    /\ Len(cmpS1) = 2 /\ cmpS1 = cmpS2
    /\ cmpRes = 0

(***************************************************************************)
(* Properties of the sets.                                                 *)
(***************************************************************************)
\* The method op has returned.
stReturned(op) == stOp = op /\ stPc = "returned"

\* The receiver and the argument when the method was called.
OldS == stPre[stS]
OldT == stPre[stT]

\* C22: after A.IntersectWith(B) every element remaining in A is in B, A is
\* the intersection of the old A with B, A.SubsetOf(B) returns true, and B
\* is unchanged.
C22_IntersectWithIsIntersection ==
    stReturned("IntersectWith") =>
        /\ \A x \in stHeap[stS] : x \in stHeap[stT]
        /\ stHeap[stS] = OldS \cap OldT
        /\ SubsetOf(stHeap[stS], stHeap[stT])
        /\ stHeap[stT] = OldT

\* IntersectWith of two distinct maps removed an element and kept another.
C22_Witness ==
    /\ stReturned("IntersectWith") /\ stS # stT
    /\ stHeap[stS] # {} /\ stHeap[stS] # OldS
    /\ OldT \ OldS # {}

\* C23: the boolean returned by s.IntersectWith(t), s.UnionWith(t) and
\* s.DifferenceWith(t) is true exactly when the cardinality of s after the
\* call differs from the one before (smaller for IntersectWith and
\* DifferenceWith, larger for UnionWith), and false exactly when s is
\* unchanged.
C23_ReportsChange ==
    /\ (stReturned("IntersectWith") \/ stReturned("DifferenceWith")) =>
          /\ stRes = (Cardinality(stHeap[stS]) < Cardinality(OldS))
          /\ ~stRes <=> stHeap[stS] = OldS
    /\ stReturned("UnionWith") =>
          /\ stRes = (Cardinality(stHeap[stS]) > Cardinality(OldS))
          /\ ~stRes <=> stHeap[stS] = OldS

\* UnionWith of two distinct maps added an element to a non-empty set and
\* returned true.
C23_Witness ==
    /\ stReturned("UnionWith") /\ stS # stT
    /\ OldS # {} /\ stRes = TRUE
    /\ Cardinality(stHeap[stS]) > Cardinality(OldS)

\* C24: after s.SymmetricDifferenceWith(t), also when s and t are the same
\* set, s holds exactly the elements that were in exactly one of the old s
\* and t; when s and t are distinct sets, t is unchanged.
C24_SymmetricDifference ==
    stReturned("SymmetricDifferenceWith") =>
        /\ stHeap[stS] = (OldS \cup OldT) \ (OldS \cap OldT)
        /\ stS # stT => stHeap[stT] = OldT

\* SymmetricDifferenceWith of two distinct maps both removed and added an
\* element.
C24_Witness ==
    /\ stReturned("SymmetricDifferenceWith") /\ stS # stT
    /\ OldS \cap OldT # {} /\ OldT \ OldS # {} /\ OldS \ OldT # {}
    /\ stHeap[stS] = (OldS \ OldT) \cup (OldT \ OldS)

(***************************************************************************)
(* Properties of FanOut and FanIn under cancellation.                      *)
(***************************************************************************)
\* Every FanOut goroutine has returned and closed its output channel.
foAllExited == \A w \in DOMAIN foPc : foPc[w] = "done" /\ foOutClosed[w]

\* C25: once ctx is cancelled, every FanOut goroutine eventually exits and
\* its output channel is eventually closed, and the output channel of FanIn
\* is eventually closed, whether or not the inputs are ever closed or ever
\* produce another element.
C25_CancellationStopsFanHelpers ==
    /\ foCancelled ~> foAllExited
    /\ fiCancelled ~> fiOutClosed

\* ctx is cancelled while a FanOut goroutine waits in range input, on an
\* input that will neither be closed nor carry another element.
C25_Witness ==
    /\ foCancelled /\ ~foCloses /\ ~foInClosed
    /\ foToSend = <<>> /\ foIn = <<>>
    /\ \E w \in DOMAIN foPc : foPc[w] = "range" /\ ~foOutClosed[w]

\* The values of input c that its FanIn goroutine held when it returned on
\* ctx.Done().
fiLostOf(c) == {p \in fiLost : p[1] = c}

\* Input c's values that the FanIn goroutine of c received, forwarded or
\* not, in order: what was sent without what is still unsent or ready.
fiReceived(c) == SubSeq(fiAll[c], 1, Len(fiAll[c]) - Len(fiToSend[c]) - Len(fiIn[c]))

\* C30: under cancellation FanIn and FanOut never deliver an element twice
\* and each goroutine drops at most one element: an element received from
\* an input and never forwarded is the one its goroutine held when it
\* returned on ctx.Done(); elements not yet received stay with the input.
C30_CancellationDropsAtMostOne ==
    /\ \A k \in 1..Len(foAll) :
          LET e == foAll[k]
          IN  /\ foDelivered(e) <= 1
              /\ foPlaces(e) + (IF e \in foLost THEN 1 ELSE 0) = 1
    /\ Cardinality(foLost) <= Cardinality({w \in DOMAIN foPc : foPc[w] = "done"})
    /\ \A c \in DOMAIN fiPc :
          /\ Cardinality(fiLostOf(c)) <= 1
          /\ fiLostOf(c) # {} => fiPc[c] = "done"
          /\ fiAll[c] = fiReceived(c) \o fiIn[c] \o fiToSend[c]
          /\ fiReceived(c) =
                 fiGot[c] \o fiInFlight(c) \o [k \in 1..Cardinality(fiLostOf(c)) |->
                                                  (CHOOSE p \in fiLostOf(c) : TRUE)[2]]

\* A FanIn goroutine returned on ctx.Done() holding a value, after it had
\* forwarded one.
C30_Witness ==
    \E c \in DOMAIN fiPc :
        /\ fiCancelled /\ fiPc[c] = "done"
        /\ fiLostOf(c) # {}
        /\ fiGot[c] # <<>>

(***************************************************************************)
(* Specifications.                                                         *)
(***************************************************************************)
InitSlices == slInit /\ parIdle /\ rvIdle /\ foIdle /\ fiIdle /\ cmpIdle /\ stIdle
SpecSlices == InitSlices /\ [][slNext]_vars

InitParallel == parInit /\ slIdle /\ rvIdle /\ foIdle /\ fiIdle /\ cmpIdle /\ stIdle
SpecParallel == InitParallel /\ [][parNext]_vars
SpecParallelFair == InitParallel /\ [][parNext]_vars /\ parFairness

InitRecv == rvInit /\ slIdle /\ parIdle /\ foIdle /\ fiIdle /\ cmpIdle /\ stIdle
SpecRecv == InitRecv /\ [][rvNext]_vars

InitFanOut == foInit /\ slIdle /\ parIdle /\ rvIdle /\ fiIdle /\ cmpIdle /\ stIdle
SpecFanOut == InitFanOut /\ [][foNext]_vars /\ foFairness

InitFanIn == fiInit /\ slIdle /\ parIdle /\ rvIdle /\ foIdle /\ cmpIdle /\ stIdle
SpecFanIn == InitFanIn /\ [][fiNext]_vars /\ fiFairness

InitCompare == cmpInit /\ slIdle /\ parIdle /\ rvIdle /\ foIdle /\ fiIdle /\ stIdle
SpecCompare == InitCompare /\ [][cmpNext]_vars

InitSet == stInit /\ slIdle /\ parIdle /\ rvIdle /\ foIdle /\ fiIdle /\ cmpIdle
SpecSet == InitSet /\ [][stNext]_vars

\* FanOut or FanIn in use.
InitFan ==
    /\ \/ foInit /\ fiIdle
       \/ foIdle /\ fiInit
    /\ slIdle /\ parIdle /\ rvIdle /\ cmpIdle /\ stIdle
fanNext == foNext \/ fiNext
SpecFan == InitFan /\ [][fanNext]_vars /\ foFairness /\ fiFairness

============================================================================
